---- MODULE Spec2Model ----
(***************************************************************************)
(* Model of the hunk patch engine (github.com/roasbeef/hunk).              *)
(*                                                                         *)
(* The state is one invocation of patch.Generate: the parsed diff, the     *)
(* selections handed in by the caller, and the patch text returned.  The   *)
(* patch text is a sequence of output lines; every output line is a record *)
(* whose kind is the literal the Go code prints in front of it ("---",     *)
(* "+++", "@@", " ", "+", "-"), followed by what it prints after it.       *)
(***************************************************************************)
EXTENDS Integers, Sequences, FiniteSets, TLC

VARIABLES parsed, args, selections, patch, err, pc,
          staging, worktree, log,
          call, result, todoFile, gitState

vars == <<parsed, args, selections, patch, err, pc, staging, worktree, log,
          call, result, todoFile, gitState>>

\* The staging area (git's index), the working tree and the record of the
\* stage commands run so far; they play no part in a lone call of
\* patch.Generate.
stageVars == <<staging, worktree, log>>

StageIdle == staging = <<>> /\ worktree = <<>> /\ log = <<>>

\* A call of one function of the packages diff or rebase on its own: the
\* function and its arguments, and what it returns.
callVars == <<call, result>>

CallIdle == call = <<>> /\ result = <<>>

\* The todo file git hands to its sequence editor, as a list of lines, and
\* what a run of `git rebase -i` left behind.
fileVars == <<todoFile, gitState>>

FileIdle == todoFile = <<>> /\ gitState = <<>>

\* No command of the patch engine is running.
genVars == <<parsed, args, selections, patch, err>>

GenIdle ==
    parsed = <<>> /\ args = <<>> /\ selections = <<>> /\ patch = <<>> /\ err = "nil"

(***************************************************************************)
(* Bounds of the model.                                                    *)
(***************************************************************************)
\* Longest hunk body (in lines) of the single-hunk diffs.
MaxHunkLen == 5
\* Largest line number a selection of a single-hunk diff names.
MaxLine == 5
\* Lines of a diff that is cut into two hunks or two files.
MaxMultiLines == 3
\* Largest line number named by the free-form selection lists.
MaxSelLine == 3
\* Old lines that lie between two hunks of one file and are not shown.
GapLines == 1

(***************************************************************************)
(* diff.LineOp and diff.DiffLine.                                          *)
(***************************************************************************)
OpContext == "context"
OpAdd == "add"
OpDelete == "delete"

Ops == {OpContext, OpAdd, OpDelete}

Prefix(op) ==
    IF op = OpAdd THEN "+" ELSE IF op = OpDelete THEN "-" ELSE " "

\* One line of output text.
TextLine(kind, name, nums, content) ==
    [kind |-> kind, name |-> name, nums |-> nums, content |-> content]

\* DiffLine.String: prefix byte followed by the content.
LineString(l) == TextLine(Prefix(l.Op), "", <<>>, l.Content)

IsChange(l) == l.Op = OpAdd \/ l.Op = OpDelete

\* Mutant of effectiveLineNum: the new line number for every line.
effectiveLineNumNewOnly(l) == l.NewLineNum

effectiveLineNum(l) == IF l.Op = OpAdd THEN l.NewLineNum ELSE l.OldLineNum

(***************************************************************************)
(* diff.Hunk.                                                              *)
(***************************************************************************)
RECURSIVE CountOps(_, _)
CountOps(lines, ops) ==
    IF lines = <<>> THEN 0
    ELSE (IF Head(lines).Op \in ops THEN 1 ELSE 0) + CountOps(Tail(lines), ops)

\* Mutant of RecalculateLineCounts: context lines are not counted on the
\* new side.
RecalculateLineCountsOldContext(h) ==
    [h EXCEPT !.OldLines = CountOps(h.Lines, {OpContext, OpDelete}),
              !.NewLines = CountOps(h.Lines, {OpAdd})]

RecalculateLineCounts(h) ==
    [h EXCEPT !.OldLines = CountOps(h.Lines, {OpContext, OpDelete}),
              !.NewLines = CountOps(h.Lines, {OpContext, OpAdd})]

\* Hunk.Header: "@@ -OldStart,OldLines +NewStart,NewLines @@ Section".
Header(h) ==
    TextLine("@@", h.Section,
             <<h.OldStart, h.OldLines, h.NewStart, h.NewLines>>, <<>>)

\* convertHunk: number the body lines from the header's start lines.
RECURSIVE convertLines(_, _, _)
convertLines(ops, oldLine, newLine) ==
    IF ops = <<>> THEN <<>>
    ELSE LET op == Head(ops) IN
         IF op = OpContext THEN
             <<[Op |-> OpContext, Content |-> <<"o", oldLine>>,
                OldLineNum |-> oldLine, NewLineNum |-> newLine]>>
             \o convertLines(Tail(ops), oldLine + 1, newLine + 1)
         ELSE IF op = OpAdd THEN
             <<[Op |-> OpAdd, Content |-> <<"n", newLine>>,
                OldLineNum |-> 0, NewLineNum |-> newLine]>>
             \o convertLines(Tail(ops), oldLine, newLine + 1)
         ELSE
             <<[Op |-> OpDelete, Content |-> <<"o", oldLine>>,
                OldLineNum |-> oldLine, NewLineNum |-> 0]>>
             \o convertLines(Tail(ops), oldLine + 1, newLine)

convertHunk(oldStart, oldLines, newStart, newLines, section, ops) ==
    [OldStart |-> oldStart, OldLines |-> oldLines,
     NewStart |-> newStart, NewLines |-> newLines,
     Section |-> section, Lines |-> convertLines(ops, oldStart, newStart)]

(***************************************************************************)
(* diff.FileDiff.                                                          *)
(***************************************************************************)
Path(f) == IF f.IsDeleted THEN f.OldName ELSE f.NewName

(***************************************************************************)
(* diff.LineRange, diff.FileSelection, diff.SelectionMap.                  *)
(***************************************************************************)
LineRangeContains(r, lineNum) == lineNum >= r.Start /\ lineNum <= r.End

Contains(fs, lineNum) ==
    \E k \in 1..Len(fs.Ranges) : LineRangeContains(fs.Ranges[k], lineNum)

Swap(rs, i, j) == [rs EXCEPT ![i] = rs[j], ![j] = rs[i]]

\* The two nested loops of Merge that order the ranges by start line.
RECURSIVE SortRanges(_, _, _)
SortRanges(rs, i, j) ==
    IF i > Len(rs) THEN rs
    ELSE IF j > Len(rs) THEN SortRanges(rs, i + 1, i + 2)
    ELSE IF rs[j].Start < rs[i].Start THEN SortRanges(Swap(rs, i, j), i, j + 1)
    ELSE SortRanges(rs, i, j + 1)

\* Mutant of Merge's coalescing loop: adjacent ranges are left apart.
RECURSIVE CoalesceOverlapOnly(_, _, _)
CoalesceOverlapOnly(rs, i, merged) ==
    IF i > Len(rs) THEN merged
    ELSE LET last == merged[Len(merged)]
             curr == rs[i]
         IN  IF curr.Start <= last.End THEN
                 IF curr.End > last.End
                 THEN CoalesceOverlapOnly(rs, i + 1,
                               [merged EXCEPT ![Len(merged)].End = curr.End])
                 ELSE CoalesceOverlapOnly(rs, i + 1, merged)
             ELSE CoalesceOverlapOnly(rs, i + 1, Append(merged, curr))

\* The loop of Merge that coalesces overlapping and adjacent ranges.
RECURSIVE Coalesce(_, _, _)
Coalesce(rs, i, merged) ==
    IF i > Len(rs) THEN merged
    ELSE LET last == merged[Len(merged)]
             curr == rs[i]
         IN  IF curr.Start <= last.End + 1 THEN
                 IF curr.End > last.End
                 THEN Coalesce(rs, i + 1,
                               [merged EXCEPT ![Len(merged)].End = curr.End])
                 ELSE Coalesce(rs, i + 1, merged)
             ELSE Coalesce(rs, i + 1, Append(merged, curr))

Merge(ranges) ==
    IF Len(ranges) <= 1 THEN ranges
    ELSE LET sorted == SortRanges(ranges, 1, 2)
         IN  Coalesce(sorted, 2, <<sorted[1]>>)

\* Mutant of NewSelectionMap: a later selection of a path replaces the
\* registered one instead of being merged into it.
RECURSIVE NewSelectionMapFromOverwrite(_, _, _)
NewSelectionMapFromOverwrite(objs, index, i) ==
    IF i > Len(objs) THEN [objs |-> objs, index |-> index]
    ELSE NewSelectionMapFromOverwrite(
             objs, [index EXCEPT ![objs[i].Path] = i], i + 1)

\* NewSelectionMap.  The map holds pointers to the caller's FileSelection
\* objects: objs is the caller's list after the call, index maps a path to
\* the position of the object registered for it (0 when there is none).
RECURSIVE NewSelectionMapFrom(_, _, _)
NewSelectionMapFrom(objs, index, i) ==
    IF i > Len(objs) THEN [objs |-> objs, index |-> index]
    ELSE LET sel == objs[i]
             first == index[sel.Path]
         IN  IF first # 0 THEN
                 NewSelectionMapFrom(
                     [objs EXCEPT ![first].Ranges =
                         Merge(objs[first].Ranges \o sel.Ranges)],
                     index, i + 1)
             ELSE NewSelectionMapFrom(
                     objs, [index EXCEPT ![sel.Path] = i], i + 1)

\* A Go pointer is a sequence: Nil, or the one object it points to.
Nil == <<>>

Ref(obj) == <<obj>>

Deref(ptr) == ptr[1]

\* SelectionMap.Get: nil when the path has no entry.
Get(m, path) ==
    IF path \in DOMAIN m.index /\ m.index[path] # 0
    THEN Ref(m.objs[m.index[path]])
    ELSE Nil

PathNames == {"a", "b", "c"}

NewSelectionMap(sels) ==
    NewSelectionMapFrom(sels, [p \in PathNames |-> 0], 1)

(***************************************************************************)
(* package patch.  Indices of changeBlock are the Go (zero-based) indices  *)
(* into hunk.Lines: startIdx inclusive, endIdx exclusive.                  *)
(***************************************************************************)
\* Mutant of maxContext: one context line more.
maxContextFour == 3 + 1

maxContext == 3

\* Mutant of findChangeBlocks: an unselected change line does not close
\* the current block.
RECURSIVE findChangeBlocksFromNoBreak(_, _, _, _, _)
findChangeBlocksFromNoBreak(hunk, sel, i, blocks, cur) ==
    IF i >= Len(hunk.Lines) THEN
        IF cur # Nil THEN Append(blocks, Deref(cur)) ELSE blocks
    ELSE LET line == hunk.Lines[i + 1] IN
         IF IsChange(line) /\ Contains(sel, effectiveLineNum(line)) THEN
             findChangeBlocksFromNoBreak(hunk, sel, i + 1, blocks,
                 IF cur = Nil
                 THEN Ref([startIdx |-> i, endIdx |-> i + 1])
                 ELSE Ref([Deref(cur) EXCEPT !.endIdx = i + 1]))
         ELSE findChangeBlocksFromNoBreak(hunk, sel, i + 1, blocks, cur)

\* Mutant of findChangeBlocks: a context line closes the current block.
RECURSIVE findChangeBlocksFromContextBreaks(_, _, _, _, _)
findChangeBlocksFromContextBreaks(hunk, sel, i, blocks, cur) ==
    IF i >= Len(hunk.Lines) THEN
        IF cur # Nil THEN Append(blocks, Deref(cur)) ELSE blocks
    ELSE LET line == hunk.Lines[i + 1] IN
         IF IsChange(line) /\ Contains(sel, effectiveLineNum(line)) THEN
             findChangeBlocksFromContextBreaks(hunk, sel, i + 1, blocks,
                 IF cur = Nil
                 THEN Ref([startIdx |-> i, endIdx |-> i + 1])
                 ELSE Ref([Deref(cur) EXCEPT !.endIdx = i + 1]))
         ELSE IF cur # Nil THEN
             findChangeBlocksFromContextBreaks(hunk, sel, i + 1,
                                               Append(blocks, Deref(cur)), Nil)
         ELSE findChangeBlocksFromContextBreaks(hunk, sel, i + 1, blocks, cur)

\* The state of the loop of findChangeBlocks before line i; cur is Nil or
\* the block under construction.
RECURSIVE findChangeBlocksFrom(_, _, _, _, _)
findChangeBlocksFrom(hunk, sel, i, blocks, cur) ==
    IF i >= Len(hunk.Lines) THEN
        IF cur # Nil THEN Append(blocks, Deref(cur)) ELSE blocks
    ELSE LET line == hunk.Lines[i + 1] IN
         IF ~IsChange(line) THEN
             findChangeBlocksFrom(hunk, sel, i + 1, blocks, cur)
         ELSE IF Contains(sel, effectiveLineNum(line)) THEN
             findChangeBlocksFrom(hunk, sel, i + 1, blocks,
                 IF cur = Nil
                 THEN Ref([startIdx |-> i, endIdx |-> i + 1])
                 ELSE Ref([Deref(cur) EXCEPT !.endIdx = i + 1]))
         ELSE IF cur # Nil THEN
             findChangeBlocksFrom(hunk, sel, i + 1, Append(blocks, Deref(cur)), Nil)
         ELSE findChangeBlocksFrom(hunk, sel, i + 1, blocks, cur)

findChangeBlocks(hunk, sel) == findChangeBlocksFrom(hunk, sel, 0, <<>>, Nil)

\* Backward expansion loop of buildHunkFromBlock.
RECURSIVE expandBackward(_, _, _, _)
expandBackward(lines, i, startIdx, contextBefore) ==
    IF i >= 0 /\ contextBefore < maxContext /\ lines[i + 1].Op = OpContext
    THEN expandBackward(lines, i - 1, i, contextBefore + 1)
    ELSE startIdx

\* Forward expansion loop of buildHunkFromBlock.
RECURSIVE expandForward(_, _, _, _)
expandForward(lines, i, endIdx, contextAfter) ==
    IF i < Len(lines) /\ contextAfter < maxContext /\ lines[i + 1].Op = OpContext
    THEN expandForward(lines, i + 1, i + 1, contextAfter + 1)
    ELSE endIdx

\* The two look-back loops of buildHunkFromBlock: the start line that the
\* nearest preceding line with a number on that side gives, 0 if none.
RECURSIVE prevOldStart(_, _)
prevOldStart(lines, i) ==
    IF i < 0 THEN 0
    ELSE IF lines[i + 1].OldLineNum > 0 THEN lines[i + 1].OldLineNum + 1
    ELSE prevOldStart(lines, i - 1)

RECURSIVE prevNewStart(_, _)
prevNewStart(lines, i) ==
    IF i < 0 THEN 0
    ELSE IF lines[i + 1].NewLineNum > 0 THEN lines[i + 1].NewLineNum + 1
    ELSE prevNewStart(lines, i - 1)

buildHunkFromBlock(original, block) ==
    LET startIdx == expandBackward(original.Lines, block.startIdx - 1,
                                   block.startIdx, 0)
        endIdx == expandForward(original.Lines, block.endIdx,
                                block.endIdx, 0)
        lines == SubSeq(original.Lines, startIdx + 1, endIdx)
        first == lines[1]
        fromPrevOld == prevOldStart(original.Lines, startIdx - 1)
        fromPrevNew == prevNewStart(original.Lines, startIdx - 1)
        oldStart ==
            IF Len(lines) = 0 THEN 0
            ELSE IF first.OldLineNum > 0 THEN first.OldLineNum
            ELSE IF fromPrevOld # 0 THEN fromPrevOld
            ELSE original.OldStart
        newStart ==
            IF Len(lines) = 0 THEN 0
            ELSE IF first.NewLineNum > 0 THEN first.NewLineNum
            ELSE IF fromPrevNew # 0 THEN fromPrevNew
            ELSE original.NewStart
    IN  RecalculateLineCounts(
            [OldStart |-> oldStart, OldLines |-> 0,
             NewStart |-> newStart, NewLines |-> 0,
             Section |-> original.Section, Lines |-> lines])

RECURSIVE buildHunks(_, _, _)
buildHunks(hunk, blocks, k) ==
    IF k > Len(blocks) THEN <<>>
    ELSE <<buildHunkFromBlock(hunk, blocks[k])>> \o buildHunks(hunk, blocks, k + 1)

filterHunk(hunk, sel) == buildHunks(hunk, findChangeBlocks(hunk, sel), 1)

\* Mutant of filterHunks: the hunks of a later source hunk come first.
RECURSIVE filterHunksPrepend(_, _)
filterHunksPrepend(hunks, sel) ==
    IF hunks = <<>> THEN <<>>
    ELSE filterHunksPrepend(Tail(hunks), sel) \o filterHunk(Head(hunks), sel)

RECURSIVE filterHunks(_, _)
filterHunks(hunks, sel) ==
    IF hunks = <<>> THEN <<>>
    ELSE filterHunk(Head(hunks), sel) \o filterHunks(Tail(hunks), sel)

\* The text Generate writes for one hunk: header line, then body lines.
WriteHunk(h) == <<Header(h)>> \o [k \in 1..Len(h.Lines) |-> LineString(h.Lines[k])]

RECURSIVE WriteHunks(_)
WriteHunks(hunks) ==
    IF hunks = <<>> THEN <<>>
    ELSE WriteHunk(Head(hunks)) \o WriteHunks(Tail(hunks))

\* Generate's lookup of the selection of a file: path, old name, new name.
LookupSelection(selMap, file) ==
    IF Get(selMap, Path(file)) # Nil THEN Get(selMap, Path(file))
    ELSE IF Get(selMap, file.OldName) # Nil THEN Get(selMap, file.OldName)
    ELSE Get(selMap, file.NewName)

\* Mutant of Generate: the file header is written although no hunk of the
\* file is left.
WriteFileAlwaysHeader(selMap, file) ==
    LET sel == LookupSelection(selMap, file) IN
    IF sel = Nil THEN <<>>
    ELSE <<TextLine("---", file.OldName, <<>>, <<>>),
           TextLine("+++", file.NewName, <<>>, <<>>)>>
         \o WriteHunks(filterHunks(file.Hunks, Deref(sel)))

\* The body of Generate's loop for one file: what it appends to buf.
WriteFile(selMap, file) ==
    LET sel == LookupSelection(selMap, file) IN
    IF sel = Nil THEN <<>>
    ELSE LET filteredHunks == filterHunks(file.Hunks, Deref(sel)) IN
         IF Len(filteredHunks) = 0 THEN <<>>
         ELSE <<TextLine("---", file.OldName, <<>>, <<>>),
                TextLine("+++", file.NewName, <<>>, <<>>)>>
              \o WriteHunks(filteredHunks)

RECURSIVE WriteFiles(_, _)
WriteFiles(selMap, files) ==
    IF files = <<>> THEN <<>>
    ELSE WriteFile(selMap, Head(files)) \o WriteFiles(selMap, Tail(files))

\* patch.Generate: the bytes and error returned, and the caller's
\* selections as NewSelectionMap leaves them.
GenerateResult(files, sels) ==
    LET selMap == NewSelectionMap(sels) IN
    [bytes |-> WriteFiles(selMap, files), err |-> "nil", sels |-> selMap.objs]

(***************************************************************************)
(* Inputs.  A diff is what `git diff` prints and diff.Parse converts: in   *)
(* a run of change lines git prints the deletions before the additions,    *)
(* and a hunk side without lines has as start the line before the hunk.    *)
(* The old file has the content <<"o", n>> in line n, an added line the    *)
(* content <<"n", n>> where n is its line in the new file.                 *)
(***************************************************************************)
GitShaped(ops) ==
    \A i \in 1..(Len(ops) - 1) : ~(ops[i] = OpAdd /\ ops[i + 1] = OpDelete)

HasChange(ops) == \E i \in DOMAIN ops : ops[i] # OpContext

OpSeqs(n) == {ops \in UNION {[1..k -> Ops] : k \in 1..n} : GitShaped(ops)}

\* The bodies git prints as a hunk: every hunk has a change line.
HunkBodies(n) == {ops \in OpSeqs(n) : HasChange(ops)}

NumOps(ops, set) == Cardinality({i \in DOMAIN ops : ops[i] \in set})

\* The hunk git prints for a body whose first old line is oldBase and whose
\* first new line is newBase, as convertHunk converts it.
GitHunk(ops, oldBase, newBase, section) ==
    LET oldLines == NumOps(ops, {OpContext, OpDelete})
        newLines == NumOps(ops, {OpContext, OpAdd})
    IN  convertHunk(IF oldLines > 0 THEN oldBase ELSE oldBase - 1, oldLines,
                    IF newLines > 0 THEN newBase ELSE newBase - 1, newLines,
                    section, ops)

\* Two hunks of one file, GapLines unchanged lines between them.
TwoHunks(ops1, ops2) ==
    <<GitHunk(ops1, 1, 1, ""),
      GitHunk(ops2, 1 + NumOps(ops1, {OpContext, OpDelete}) + GapLines,
                    1 + NumOps(ops1, {OpContext, OpAdd}) + GapLines, "fn")>>

FileKinds == {"plain", "renamed", "deleted"}

\* convertFileDiff: the names of file "a" unchanged, renamed to "b", deleted.
FileA(kind, hunks) ==
    [OldName |-> "a",
     NewName |-> IF kind = "renamed" THEN "b"
                 ELSE IF kind = "deleted" THEN "/dev/null" ELSE "a",
     IsDeleted |-> (kind = "deleted"),
     Hunks |-> hunks]

FileC(hunks) ==
    [OldName |-> "c", NewName |-> "c", IsDeleted |-> FALSE, Hunks |-> hunks]

\* The diff of a deleted file has deletions only.
KindAllowed(kind, ops) ==
    kind = "deleted" => \A i \in DOMAIN ops : ops[i] = OpDelete

SingleHunkDiffs ==
    {<<FileA("plain", <<GitHunk(ops, 1, 1, "")>>)>> : ops \in HunkBodies(MaxHunkLen)}

\* The places where a body can be cut into two hunk bodies.
Cuts(ops) ==
    {c \in 1..(Len(ops) - 1) :
        HasChange(SubSeq(ops, 1, c)) /\ HasChange(SubSeq(ops, c + 1, Len(ops)))}

\* The diffs made of the lines ops: one hunk, two hunks of one file, or
\* one hunk in each of two files.
MultiDiffsOf(ops, kind) ==
    {<<FileA(kind, <<GitHunk(ops, 1, 1, "")>>)>> :
        x \in {x \in {1} : KindAllowed(kind, ops)}}
    \cup
    {<<FileA(kind, TwoHunks(SubSeq(ops, 1, c), SubSeq(ops, c + 1, Len(ops))))>> :
        c \in {c \in Cuts(ops) : KindAllowed(kind, ops)}}
    \cup
    {<<FileA(kind, <<GitHunk(SubSeq(ops, 1, c), 1, 1, "")>>),
       FileC(<<GitHunk(SubSeq(ops, c + 1, Len(ops)), 1, 1, "")>>)>> :
        c \in {c \in Cuts(ops) : KindAllowed(kind, SubSeq(ops, 1, c))}}

MultiDiffs ==
    UNION {MultiDiffsOf(ops, kind) : ops \in HunkBodies(MaxMultiLines), kind \in FileKinds}

\* The maximal runs of a set of line numbers, ascending: the selection a
\* caller writes in normal form.
RECURSIVE RunEnd(_, _)
RunEnd(S, n) == IF (n + 1) \in S THEN RunEnd(S, n + 1) ELSE n

RECURSIVE RunsFrom(_, _, _)
RunsFrom(S, n, max) ==
    IF n > max THEN <<>>
    ELSE IF n \notin S THEN RunsFrom(S, n + 1, max)
    ELSE <<[Start |-> n, End |-> RunEnd(S, n)]>> \o RunsFrom(S, RunEnd(S, n) + 1, max)

FileSelection(path, ranges) == [Path |-> path, Ranges |-> ranges]

NormalSelections ==
    {<<FileSelection("a", RunsFrom(S, 1, MaxLine))>> : S \in (SUBSET (1..MaxLine)) \ {{}}}

\* parseRange accepts exactly the ranges with 1 <= Start <= End.
LineRanges == {r \in [Start : 1..MaxSelLine, End : 1..MaxSelLine] : r.Start <= r.End}

SelLists ==
    {<<FileSelection(p, <<r>>)>> : p \in PathNames, r \in LineRanges}
    \cup
    {<<FileSelection(p, <<r1, r2>>)>> : p \in PathNames, r1 \in LineRanges, r2 \in LineRanges}
    \cup
    {<<FileSelection(p1, <<r1>>), FileSelection(p2, <<r2>>)>> :
        p1 \in PathNames, p2 \in PathNames, r1 \in LineRanges, r2 \in LineRanges}

(***************************************************************************)
(* The state machine: one call of patch.Generate on a parsed diff and the  *)
(* selections parsed from the command line (args keeps their value as      *)
(* parsed; selections are the objects the caller holds).                   *)
(***************************************************************************)
Init ==
    /\ \/ parsed \in SingleHunkDiffs /\ args \in NormalSelections
       \/ parsed \in MultiDiffs /\ args \in SelLists
    /\ selections = args
    /\ patch = <<>>
    /\ err = "nil"
    /\ pc = "start"
    /\ StageIdle
    /\ FileIdle
    /\ CallIdle

Generate ==
    /\ pc = "start"
    /\ LET r == GenerateResult(parsed, selections) IN
        /\ patch' = r.bytes
        /\ err' = r.err
        /\ selections' = r.sels
    /\ pc' = "done"
    /\ UNCHANGED <<parsed, args>>
    /\ UNCHANGED stageVars
    /\ UNCHANGED <<callVars, fileVars>>

Next == Generate

Spec == Init /\ [][Next]_vars

(***************************************************************************)
(* Vocabulary of the properties, read off the diff, the command-line       *)
(* selections and the patch text, independently of the engine.             *)
(***************************************************************************)
Done == pc = "done"

SetMin(S) == CHOOSE m \in S : \A x \in S : m <= x

SetMax(S) == CHOOSE m \in S : \A x \in S : m >= x

\* Effective line number: new_line for Add, old_line for Delete.
EffLine(l) == IF l.Op = OpAdd THEN l.NewLineNum ELSE l.OldLineNum

ChangeLine(l) == l.Op \in {OpAdd, OpDelete}

\* The arguments name a path / cover line n of a path.
Named(path) == \E i \in DOMAIN args : args[i].Path = path

Covered(path, n) ==
    \E i \in DOMAIN args : /\ args[i].Path = path
                           /\ \E k \in DOMAIN args[i].Ranges :
                                 /\ args[i].Ranges[k].Start <= n
                                 /\ n <= args[i].Ranges[k].End

\* The selection of a file: matched by current path, then by old name,
\* then by new name.
CurrentPath(f) == IF f.IsDeleted THEN f.OldName ELSE f.NewName

FileCovered(f, n) ==
    IF Named(CurrentPath(f)) THEN Covered(CurrentPath(f), n)
    ELSE IF Named(f.OldName) THEN Covered(f.OldName, n)
    ELSE Covered(f.NewName, n)

Selected(f, l) == ChangeLine(l) /\ FileCovered(f, EffLine(l))

\* The text a diff line has in a patch.
TextOf(l) ==
    [kind |-> IF l.Op = OpAdd THEN "+" ELSE IF l.Op = OpDelete THEN "-" ELSE " ",
     name |-> "", nums |-> <<>>, content |-> l.Content]

\* The patch text: the sections of the files, the hunks of a section.
IsBodyLine(t) == t.kind \in {" ", "+", "-"}

\* Index of the first line after i that opens a hunk or a file, or the
\* index after the last line.
NextBreak(i) ==
    SetMin({j \in (i + 1)..Len(patch) : ~IsBodyLine(patch[j])} \cup {Len(patch) + 1})

NextFile(i) ==
    SetMin({j \in (i + 1)..Len(patch) : patch[j].kind = "---"} \cup {Len(patch) + 1})

\* The indices of the "---" lines that open the section of file f.
SectionsOf(f) ==
    {k \in 1..(Len(patch) - 1) :
        /\ patch[k].kind = "---" /\ patch[k].name = f.OldName
        /\ patch[k + 1].kind = "+++" /\ patch[k + 1].name = f.NewName}

\* The indices of the hunk headers in the section opened at k.
HunkHeaders(k) == {i \in (k + 2)..(NextFile(k) - 1) : patch[i].kind = "@@"}

\* The body of the output hunk whose header is line i of the patch.
Body(i) == SubSeq(patch, i + 1, NextBreak(i) - 1)

\* The output hunks of file f, as indices of their headers.
OutputHunks(f) == UNION {HunkHeaders(k) : k \in SectionsOf(f)}

\* Output hunk i holds the text of diff line l.
Holds(i, l) == \E j \in DOMAIN Body(i) : Body(i)[j] = TextOf(l)

\* The patch holds change line l of file f.
InPatch(f, l) == \E i \in OutputHunks(f) : Holds(i, l)

\* The change group of line c of hunk h: the maximal run of change lines
\* around it, as a set of indices.
GroupOf(h, c) ==
    {j \in DOMAIN h.Lines :
        \A m \in (IF j <= c THEN j..c ELSE c..j) : ChangeLine(h.Lines[m])}

\* A group with a deletion followed by an addition.
MixedGroup(h, g) ==
    \E d \in g, a \in g : d < a /\ h.Lines[d].Op = OpDelete /\ h.Lines[a].Op = OpAdd

FilesOf(d) == {d[i] : i \in DOMAIN d}

HunksOf(f) == {f.Hunks[i] : i \in DOMAIN f.Hunks}

(***************************************************************************)
(* C1: a mixed replacement group is indivisible: when the selection covers *)
(* the effective line number of one of its lines, the patch holds every    *)
(* deletion and addition of the group, all in one output hunk.             *)
(***************************************************************************)
C1_MixedGroupAtomic ==
    Done =>
        \A f \in FilesOf(parsed) : \A h \in HunksOf(f) : \A c \in DOMAIN h.Lines :
            LET g == GroupOf(h, c) IN
            (/\ ChangeLine(h.Lines[c])
             /\ MixedGroup(h, g)
             /\ \E j \in g : Selected(f, h.Lines[j]))
            => \E i \in OutputHunks(f) : \A j \in g : Holds(i, h.Lines[j])

(***************************************************************************)
(* C2: never more: every "+" or "-" line of the patch is a change line of  *)
(* the same file of the diff that is selected or that lies in a mixed      *)
(* replacement group with a selected line.                                 *)
(***************************************************************************)
C2_NeverMore ==
    Done =>
        /\ \A k \in DOMAIN patch :
              patch[k].kind = "---" => \E f \in FilesOf(parsed) : k \in SectionsOf(f)
        /\ \A f \in FilesOf(parsed) : \A i \in OutputHunks(f) : \A j \in DOMAIN Body(i) :
              Body(i)[j].kind \in {"+", "-"} =>
                \E h \in HunksOf(f) : \E c \in DOMAIN h.Lines :
                    /\ ChangeLine(h.Lines[c])
                    /\ TextOf(h.Lines[c]) = Body(i)[j]
                    /\ \/ Selected(f, h.Lines[c])
                       \/ /\ MixedGroup(h, GroupOf(h, c))
                          /\ \E m \in GroupOf(h, c) : Selected(f, h.Lines[m])

\* A pure-addition group of which one addition is selected and staged and
\* another one is not selected.
C2_Witness ==
    /\ Done
    /\ \E f \in FilesOf(parsed) : \E h \in HunksOf(f) : \E c \in DOMAIN h.Lines :
        LET g == GroupOf(h, c) IN
        /\ h.Lines[c].Op = OpAdd /\ Selected(f, h.Lines[c]) /\ InPatch(f, h.Lines[c])
        /\ \A m \in g : h.Lines[m].Op = OpAdd
        /\ \E m \in g : ~Selected(f, h.Lines[m])

(***************************************************************************)
(* C3: never less: every selected change line of the diff is in the patch  *)
(* exactly once, with its prefix and content.                              *)
(***************************************************************************)
Occurrences(f, l) ==
    Cardinality({<<i, j>> \in OutputHunks(f) \X (1..Len(patch)) :
                    j \in DOMAIN Body(i) /\ Body(i)[j] = TextOf(l)})

C3_NeverLess ==
    Done =>
        \A f \in FilesOf(parsed) : \A h \in HunksOf(f) : \A c \in DOMAIN h.Lines :
            Selected(f, h.Lines[c]) => Occurrences(f, h.Lines[c]) = 1

\* A selected deletion and a selected addition, both staged, next to a
\* change line that is not selected.
C3_Witness ==
    /\ Done
    /\ \E f \in FilesOf(parsed) : \E h \in HunksOf(f) :
        /\ \E c \in DOMAIN h.Lines :
              h.Lines[c].Op = OpDelete /\ Selected(f, h.Lines[c]) /\ InPatch(f, h.Lines[c])
        /\ \E c \in DOMAIN h.Lines :
              h.Lines[c].Op = OpAdd /\ Selected(f, h.Lines[c]) /\ InPatch(f, h.Lines[c])
        /\ \E c \in DOMAIN h.Lines :
              ChangeLine(h.Lines[c]) /\ ~Selected(f, h.Lines[c])

(***************************************************************************)
(* Applying a patch to the old (index) version of a file.  A hunk stands   *)
(* at its old_start; by the unified diff format a hunk without old lines   *)
(* names the line before it, so its lines go in after line old_start.      *)
(***************************************************************************)
\* The old version of file f: every line the diff numbers on the old side
\* and GapLines more.
OldNums(f) ==
    {f.Hunks[k].Lines[j].OldLineNum : <<k, j>> \in
        {<<k, j>> \in (DOMAIN f.Hunks) \X (1..(MaxHunkLen + MaxMultiLines)) :
            j \in DOMAIN f.Hunks[k].Lines}}

OldFile(f) == [n \in 1..(SetMax(OldNums(f) \cup {0}) + GapLines) |-> <<"o", n>>]

RECURSIVE SideOf(_, _)
SideOf(body, kinds) ==
    IF body = <<>> THEN <<>>
    ELSE (IF Head(body).kind \in kinds THEN <<Head(body).content>> ELSE <<>>)
         \o SideOf(Tail(body), kinds)

\* First old line a hunk with the header numbers nums replaces.
PlaceOf(nums) == IF nums[2] > 0 THEN nums[1] ELSE nums[1] + 1

\* Apply the output hunks hs (header indices, ascending) to old from line
\* cursor on.
RECURSIVE ApplyFrom(_, _, _)
ApplyFrom(old, hs, cursor) ==
    IF hs = <<>> THEN [ok |-> TRUE, lines |-> SubSeq(old, cursor, Len(old))]
    ELSE LET nums == patch[Head(hs)].nums
             place == PlaceOf(nums)
             oldSide == SideOf(Body(Head(hs)), {" ", "-"})
             newSide == SideOf(Body(Head(hs)), {" ", "+"})
             fits == /\ place >= cursor
                     /\ place + Len(oldSide) - 1 <= Len(old)
                     /\ oldSide = SubSeq(old, place, place + Len(oldSide) - 1)
             rest == ApplyFrom(old, Tail(hs), place + Len(oldSide))
         IN  IF ~fits THEN [ok |-> FALSE, lines |-> <<>>]
             ELSE [ok |-> rest.ok,
                   lines |-> SubSeq(old, cursor, place - 1) \o newSide \o rest.lines]

RECURSIVE Ascending(_)
Ascending(S) ==
    IF S = {} THEN <<>> ELSE <<SetMin(S)>> \o Ascending(S \ {SetMin(S)})

Applied(f) == ApplyFrom(OldFile(f), Ascending(OutputHunks(f)), 1)

\* The old file with exactly the change lines the patch holds applied.
RECURSIVE StagedLines(_, _)
StagedLines(f, lines) ==
    IF lines = <<>> THEN <<>>
    ELSE LET l == Head(lines)
             kept == \/ l.Op = OpContext
                     \/ l.Op = OpDelete /\ ~InPatch(f, l)
                     \/ l.Op = OpAdd /\ InPatch(f, l)
         IN  (IF kept THEN <<l.Content>> ELSE <<>>) \o StagedLines(f, Tail(lines))

RECURSIVE StagedFrom(_, _, _, _)
StagedFrom(f, old, k, cursor) ==
    IF k > Len(f.Hunks) THEN SubSeq(old, cursor, Len(old))
    ELSE LET h == f.Hunks[k]
             place == PlaceOf(<<h.OldStart, h.OldLines>>)
         IN  SubSeq(old, cursor, place - 1) \o StagedLines(f, h.Lines)
             \o StagedFrom(f, old, k + 1, place + h.OldLines)

Staged(f) == StagedFrom(f, OldFile(f), 1, 1)

(***************************************************************************)
(* C4: the patch applies to the old version of every file with each hunk   *)
(* at its old_start, and gives the old file with exactly the change lines  *)
(* of the patch applied.                                                   *)
(***************************************************************************)
C4_PatchApplies ==
    Done => \A f \in FilesOf(parsed) : Applied(f).ok /\ Applied(f).lines = Staged(f)

\* The diff and the selection TestGenerate_NonContiguousSelections names
\* "pure addition group allows individual selection": the patch for the
\* middle one of three additions is "@@ -2,0 +3,1 @@", which puts the line
\* behind old line 2 and not behind old line 1.
C4_FailingInput ==
    /\ parsed = <<FileA("plain",
                    <<GitHunk(<<OpContext, OpAdd, OpAdd, OpAdd, OpContext>>, 1, 1, "")>>)>>
    /\ args = <<FileSelection("a", <<[Start |-> 3, End |-> 3]>>)>>

C4_PatchAppliesOnFailingInput == (Done /\ C4_FailingInput) => C4_PatchApplies

(***************************************************************************)
(* Output hunks and the source hunks they are cut from.                    *)
(***************************************************************************)
\* The places <<k, s>> such that output hunk i is the text of the lines
\* s, s+1, ... of hunk k of file f.
SlicesOf(f, i) ==
    {<<k, s>> \in (DOMAIN f.Hunks) \X (1..(MaxHunkLen + MaxMultiLines)) :
        /\ Len(Body(i)) >= 1
        /\ s + Len(Body(i)) - 1 <= Len(f.Hunks[k].Lines)
        /\ \A j \in DOMAIN Body(i) : Body(i)[j] = TextOf(f.Hunks[k].Lines[s + j - 1])}

\* The indices of the change lines in a body.
ChangesIn(body) == {j \in DOMAIN body : body[j].kind \in {"+", "-"}}

\* Output hunk i stages a change line of hunk h.
CutFrom(i, h) ==
    \E c \in DOMAIN h.Lines : ChangeLine(h.Lines[c]) /\ Holds(i, h.Lines[c])

\* The change line before line c of hunk h, 0 if there is none.
PrevChange(h, c) == SetMax({j \in 1..(c - 1) : ChangeLine(h.Lines[j])} \cup {0})

\* The first lines of the maximal runs of included change lines of hunk h:
\* a run ends where a change line is left out.
RunStarts(f, h) ==
    {c \in DOMAIN h.Lines :
        /\ ChangeLine(h.Lines[c]) /\ InPatch(f, h.Lines[c])
        /\ \/ PrevChange(h, c) = 0
           \/ ~InPatch(f, h.Lines[PrevChange(h, c)])}

(***************************************************************************)
(* C5: a source hunk gives as many output hunks as it has maximal runs of  *)
(* included change lines separated by unselected change lines; included    *)
(* change lines with only context lines between them stay in one output    *)
(* hunk.                                                                   *)
(***************************************************************************)
C5_OneHunkPerRun ==
    Done =>
        \A f \in FilesOf(parsed) : \A h \in HunksOf(f) :
            /\ Cardinality({i \in OutputHunks(f) : CutFrom(i, h)})
                  = Cardinality(RunStarts(f, h))
            /\ \A c \in RunStarts(f, h) :
                  PrevChange(h, c) # 0 => ~Selected(f, h.Lines[PrevChange(h, c)])
            /\ \A c1 \in DOMAIN h.Lines, c2 \in DOMAIN h.Lines :
                  (/\ c1 < c2
                   /\ ChangeLine(h.Lines[c1]) /\ InPatch(f, h.Lines[c1])
                   /\ ChangeLine(h.Lines[c2]) /\ InPatch(f, h.Lines[c2])
                   /\ \A m \in (c1 + 1)..(c2 - 1) : h.Lines[m].Op = OpContext)
                  => \E i \in OutputHunks(f) : Holds(i, h.Lines[c1]) /\ Holds(i, h.Lines[c2])

\* One source hunk that gives two output hunks, one of which holds two
\* change lines with a context line between them.
C5_Witness ==
    /\ Done
    /\ \E f \in FilesOf(parsed) : \E h \in HunksOf(f) :
        /\ Cardinality({i \in OutputHunks(f) : CutFrom(i, h)}) = 2
        /\ \E i \in OutputHunks(f) : \E j \in DOMAIN Body(i) :
              /\ Body(i)[j].kind = " "
              /\ \E a \in ChangesIn(Body(i)) : a < j
              /\ \E b \in ChangesIn(Body(i)) : b > j

(***************************************************************************)
(* C6: every output hunk is a contiguous slice of the lines of its source  *)
(* hunk, with at most 3 context lines before its first and after its last  *)
(* change line, and with no unselected change line in it.                  *)
(***************************************************************************)
C6_SliceWithContext ==
    Done =>
        \A f \in FilesOf(parsed) : \A i \in OutputHunks(f) :
            /\ SlicesOf(f, i) # {}
            /\ \A p \in SlicesOf(f, i) :
                  \A j \in ChangesIn(Body(i)) :
                      Selected(f, f.Hunks[p[1]].Lines[p[2] + j - 1])
            /\ ChangesIn(Body(i)) # {}
            /\ SetMin(ChangesIn(Body(i))) - 1 <= 3
            /\ Len(Body(i)) - SetMax(ChangesIn(Body(i))) <= 3

\* An output hunk with exactly 3 context lines before its first change
\* line, cut from a hunk that has a fourth context line before them.
C6_Witness ==
    /\ Done
    /\ \E f \in FilesOf(parsed) : \E i \in OutputHunks(f) : \E p \in SlicesOf(f, i) :
        /\ ChangesIn(Body(i)) # {}
        /\ SetMin(ChangesIn(Body(i))) = 4
        /\ p[2] > 1
        /\ f.Hunks[p[1]].Lines[p[2] - 1].Op = OpContext

(***************************************************************************)
(* C7: in every output hunk header old_count is the number of context and  *)
(* deletion lines of the body and new_count the number of context and      *)
(* addition lines.                                                         *)
(***************************************************************************)
C7_HeaderCounts ==
    Done =>
        \A i \in DOMAIN patch :
            patch[i].kind = "@@" =>
                /\ patch[i].nums[2] = Len(SideOf(Body(i), {" ", "-"}))
                /\ patch[i].nums[4] = Len(SideOf(Body(i), {" ", "+"}))

\* An output hunk with a context line, a deletion and an addition.
C7_Witness ==
    /\ Done
    /\ \E i \in DOMAIN patch :
        /\ patch[i].kind = "@@"
        /\ \A kind \in {" ", "+", "-"} : \E j \in DOMAIN Body(i) : Body(i)[j].kind = kind
        /\ patch[i].nums[2] # patch[i].nums[4]

(***************************************************************************)
(* C8: in every file of the patch the output hunks stand in the order of   *)
(* their lines in the diff, and no two of them share a line of the diff.   *)
(***************************************************************************)
C8_AscendingDisjoint ==
    Done =>
        \A f \in FilesOf(parsed) : \A i1 \in OutputHunks(f), i2 \in OutputHunks(f) :
            i1 < i2 =>
                /\ SlicesOf(f, i1) # {} /\ SlicesOf(f, i2) # {}
                /\ \A p1 \in SlicesOf(f, i1), p2 \in SlicesOf(f, i2) :
                      \/ p1[1] < p2[1]
                      \/ p1[1] = p2[1] /\ p1[2] + Len(Body(i1)) - 1 < p2[2]

\* A file with output hunks cut from two source hunks.
C8_Witness ==
    /\ Done
    /\ \E f \in FilesOf(parsed) :
        /\ Cardinality(OutputHunks(f)) >= 2
        /\ \E i1 \in OutputHunks(f), i2 \in OutputHunks(f) :
              \E p1 \in SlicesOf(f, i1), p2 \in SlicesOf(f, i2) : p1[1] < p2[1]

\* A source hunk cut into two output hunks.
C8_WitnessSplit ==
    /\ Done
    /\ \E f \in FilesOf(parsed) : \E h \in HunksOf(f) :
        Cardinality({i \in OutputHunks(f) : CutFrom(i, h)}) >= 2

(***************************************************************************)
(* C9: when no selection covers the effective line number of a change line *)
(* of its file, Generate returns empty output and no error.                *)
(***************************************************************************)
NothingSelected ==
    \A f \in FilesOf(parsed) : \A h \in HunksOf(f) : \A c \in DOMAIN h.Lines :
        ~Selected(f, h.Lines[c])

C9_NoMatchEmpty == (Done /\ NothingSelected) => (patch = <<>> /\ err = "nil")

\* Nothing is selected although one selection names a file of the diff and
\* another one names a file that is not in the diff.
C9_Witness ==
    /\ Done /\ NothingSelected /\ patch = <<>>
    /\ \E i \in DOMAIN args : \E f \in FilesOf(parsed) :
          args[i].Path \in {CurrentPath(f), f.OldName, f.NewName}
    /\ \E i \in DOMAIN args : \A f \in FilesOf(parsed) :
          args[i].Path \notin {CurrentPath(f), f.OldName, f.NewName}

(***************************************************************************)
(* C10: the patch depends on the selections only through the set of line   *)
(* numbers they cover for every path: it is the patch of the selection     *)
(* list in normal form, which has one selection per covered path, in the   *)
(* order of the paths, with the ranges being the maximal runs of the       *)
(* covered lines.  Two lists with the same coverage have the same normal   *)
(* form, hence byte-identical patches.                                     *)
(***************************************************************************)
MaxCovered == IF MaxLine > MaxSelLine THEN MaxLine ELSE MaxSelLine

CoverSet(path) == {n \in 1..MaxCovered : Covered(path, n)}

NormalFormOf(path) ==
    IF CoverSet(path) = {} THEN <<>>
    ELSE <<FileSelection(path, RunsFrom(CoverSet(path), 1, MaxCovered))>>

NormalForm == NormalFormOf("a") \o NormalFormOf("b") \o NormalFormOf("c")

C10_CoverageOnly == Done => patch = GenerateResult(parsed, NormalForm).bytes

\* A path selected by two tokens whose ranges are out of order or overlap,
\* with a patch that is not empty.
C10_Witness ==
    /\ Done /\ patch # <<>>
    /\ Len(args) = 2 /\ args[1].Path = args[2].Path
    /\ args # NormalForm
    /\ args[2].Ranges[1].Start <= args[1].Ranges[1].End
    /\ selections # args

(***************************************************************************)
(* The stage command (runStage) against git.  The index and the working    *)
(* tree hold one file, "a", as a sequence of lines; every line of the      *)
(* file is different from every other.  git is modelled by what `git       *)
(* diff` prints for such files and by the rules `git apply --cached`       *)
(* places a hunk with.                                                      *)
(***************************************************************************)
\* Longest edit script the staged file starts from.
MaxStageLen == 5

\* Number of stage commands run one after the other.
StageRuns == 2

\* Lines of context `git diff` prints around a change.
GitContext == 3

RECURSIVE ContentsOf(_, _)
ContentsOf(lines, ops) ==
    IF lines = <<>> THEN <<>>
    ELSE (IF Head(lines).Op \in ops THEN <<Head(lines).Content>> ELSE <<>>)
         \o ContentsOf(Tail(lines), ops)

\* The index and the working tree an edit script ops leads between.
IndexOf(ops) == ContentsOf(convertLines(ops, 1, 1), {OpContext, OpDelete})

WorktreeOf(ops) == ContentsOf(convertLines(ops, 1, 1), {OpContext, OpAdd})

InSeq(x, seq) == \E i \in DOMAIN seq : seq[i] = x

\* The edit script of `git diff`: the lines both files hold are context, in
\* a run of changes the deletions come before the additions.
RECURSIVE DiffScript(_, _)
DiffScript(idx, wt) ==
    IF idx = <<>> /\ wt = <<>> THEN <<>>
    ELSE IF idx # <<>> /\ ~InSeq(Head(idx), wt) THEN
        <<[op |-> OpDelete, content |-> Head(idx)]>> \o DiffScript(Tail(idx), wt)
    ELSE IF wt # <<>> /\ (idx = <<>> \/ Head(wt) # Head(idx)) THEN
        <<[op |-> OpAdd, content |-> Head(wt)]>> \o DiffScript(idx, Tail(wt))
    ELSE
        <<[op |-> OpContext, content |-> Head(idx)]>>
        \o DiffScript(Tail(idx), Tail(wt))

ChangesOf(script) == {i \in DOMAIN script : script[i].op # OpContext}

\* convertHunk on a body with its text: number the lines from the header's
\* start lines.
RECURSIVE convertBody(_, _, _)
convertBody(body, oldLine, newLine) ==
    IF body = <<>> THEN <<>>
    ELSE LET op == Head(body).op
             content == Head(body).content
         IN  IF op = OpContext THEN
                 <<[Op |-> OpContext, Content |-> content,
                    OldLineNum |-> oldLine, NewLineNum |-> newLine]>>
                 \o convertBody(Tail(body), oldLine + 1, newLine + 1)
             ELSE IF op = OpAdd THEN
                 <<[Op |-> OpAdd, Content |-> content,
                    OldLineNum |-> 0, NewLineNum |-> newLine]>>
                 \o convertBody(Tail(body), oldLine, newLine + 1)
             ELSE
                 <<[Op |-> OpDelete, Content |-> content,
                    OldLineNum |-> oldLine, NewLineNum |-> 0]>>
                 \o convertBody(Tail(body), oldLine + 1, newLine)

\* executor.Diff followed by diff.Parse: no file when nothing differs, else
\* file "a" with one hunk, GitContext lines of context around the changes
\* (the files are too short for git to print two hunks).
GitDiff(idx, wt) ==
    LET script == DiffScript(idx, wt)
        changes == ChangesOf(script)
    IN  IF changes = {} THEN <<>>
        ELSE LET from == IF SetMin(changes) - GitContext < 1 THEN 1
                         ELSE SetMin(changes) - GitContext
                 to == IF SetMax(changes) + GitContext > Len(script)
                       THEN Len(script)
                       ELSE SetMax(changes) + GitContext
                 body == SubSeq(script, from, to)
                 oldLines == Cardinality({i \in DOMAIN body : body[i].op # OpAdd})
                 newLines == Cardinality({i \in DOMAIN body : body[i].op # OpDelete})
                 oldStart == IF oldLines > 0 THEN from ELSE from - 1
                 newStart == IF newLines > 0 THEN from ELSE from - 1
             IN  <<[OldName |-> "a", NewName |-> "a", IsDeleted |-> FALSE,
                    Hunks |-> <<[OldStart |-> oldStart, OldLines |-> oldLines,
                                 NewStart |-> newStart, NewLines |-> newLines,
                                 Section |-> "",
                                 Lines |-> convertBody(body, oldStart, newStart)]>>]>>

\* The body lines that follow a hunk header in a patch text.
RECURSIVE BodyPrefix(_)
BodyPrefix(text) ==
    IF text = <<>> \/ Head(text).kind \notin {" ", "+", "-"} THEN <<>>
    ELSE <<Head(text)>> \o BodyPrefix(Tail(text))

\* The hunks of a patch text for one file: header numbers and body.
RECURSIVE Fragments(_)
Fragments(text) ==
    IF text = <<>> THEN <<>>
    ELSE IF Head(text).kind = "@@" THEN
        <<[nums |-> Head(text).nums, body |-> BodyPrefix(Tail(text))]>>
        \o Fragments(Tail(text))
    ELSE Fragments(Tail(text))

\* `git apply` places a hunk where the lines of its old side stand in the
\* file, behind the hunks placed before it; a hunk whose old_start is 0 or
\* 1 has to stand at the top of the file, and a hunk that does not end in
\* a context line has to reach the end of the file.
Places(old, frag, cursor) ==
    LET pre == SideOf(frag.body, {" ", "-"})
        trailing == frag.body # <<>> /\ frag.body[Len(frag.body)].kind = " "
    IN  {p \in cursor..(Len(old) + 1) :
            /\ p + Len(pre) - 1 <= Len(old)
            /\ pre = SubSeq(old, p, p + Len(pre) - 1)
            /\ (frag.nums[1] <= 1 => p = 1)
            /\ (~trailing => p + Len(pre) - 1 = Len(old))}

RECURSIVE ApplyFragments(_, _, _)
ApplyFragments(old, frags, cursor) ==
    IF frags = <<>> THEN [ok |-> TRUE, lines |-> SubSeq(old, cursor, Len(old))]
    ELSE LET frag == Head(frags)
             places == Places(old, frag, cursor)
         IN  IF places = {} THEN [ok |-> FALSE, lines |-> <<>>]
             ELSE LET p == SetMin(places)
                      pre == SideOf(frag.body, {" ", "-"})
                      rest == ApplyFragments(old, Tail(frags), p + Len(pre))
                  IN  [ok |-> rest.ok,
                       lines |-> SubSeq(old, cursor, p - 1)
                                 \o SideOf(frag.body, {" ", "+"}) \o rest.lines]

\* executor.ApplyPatch: `git apply --cached -` changes the index only when
\* every hunk of the patch applies.
ApplyPatch(idx, text) ==
    LET r == ApplyFragments(idx, Fragments(text), 1) IN
    IF r.ok THEN [err |-> "nil", index |-> r.lines]
    ELSE [err |-> "patch does not apply", index |-> idx]

\* runStage without --dry-run, on the selections sels as ParseSelections
\* returns them: what it leaves in the index and the error it returns.
StageResult(idx, wt, sels) ==
    LET diffText == GitDiff(idx, wt)
        gen == GenerateResult(diffText, sels)
        applied == ApplyPatch(idx, gen.bytes)
    IN  IF diffText = <<>> THEN
            [parsed |-> diffText, sels |-> sels, patch |-> <<>>,
             err |-> "no unstaged changes", index |-> idx]
        ELSE IF Len(gen.bytes) = 0 THEN
            [parsed |-> diffText, sels |-> gen.sels, patch |-> gen.bytes,
             err |-> "no matching lines found for selection", index |-> idx]
        ELSE IF applied.err # "nil" THEN
            [parsed |-> diffText, sels |-> gen.sels, patch |-> gen.bytes,
             err |-> "failed to stage changes", index |-> idx]
        ELSE
            [parsed |-> diffText, sels |-> gen.sels, patch |-> gen.bytes,
             err |-> "nil", index |-> applied.index]

\* A file with unstaged changes and the selection of a stage command.
InitStage ==
    /\ \E ops \in HunkBodies(MaxStageLen) :
          staging = IndexOf(ops) /\ worktree = WorktreeOf(ops)
    /\ args \in NormalSelections
    /\ selections = args
    /\ parsed = <<>>
    /\ patch = <<>>
    /\ err = "nil"
    /\ pc = "stage"
    /\ log = <<>>
    /\ CallIdle
    /\ FileIdle

\* One run of `hunk stage` with the arguments args.
RunStage ==
    /\ pc = "stage"
    /\ Len(log) < StageRuns
    /\ LET r == StageResult(staging, worktree, args) IN
        /\ parsed' = r.parsed
        /\ selections' = r.sels
        /\ patch' = r.patch
        /\ err' = r.err
        /\ staging' = r.index
        /\ log' = Append(log, [err |-> r.err, index |-> r.index, patch |-> r.patch])
    /\ UNCHANGED <<args, worktree, pc>>
    /\ UNCHANGED <<callVars, fileVars>>

NextStage == RunStage

SpecStage == InitStage /\ [][NextStage]_vars

(***************************************************************************)
(* C11: staging is idempotent over the index: when a stage command has     *)
(* succeeded, running the same command again leaves the index as the       *)
(* first run left it.                                                      *)
(***************************************************************************)
C11_StageIdempotent ==
    (Len(log) >= 2 /\ log[1].err = "nil") => log[2].index = log[1].index

\* Index A B C D E, working tree A C E, `hunk stage a:2-3`: the first run
\* stages the deletion of B (old line 2), the second run the deletion of D,
\* which the first run has moved from old line 4 to old line 3.
C11_FailingInput ==
    /\ worktree = <<<<"o", 1>>, <<"o", 3>>, <<"o", 5>>>>
    /\ args = <<FileSelection("a", <<[Start |-> 2, End |-> 3]>>)>>
    /\ Len(log) = 2
    /\ log[1].err = "nil" /\ log[1].index = <<<<"o", 1>>, <<"o", 3>>, <<"o", 4>>, <<"o", 5>>>>
    /\ log[2].err = "nil" /\ log[2].index = <<<<"o", 1>>, <<"o", 3>>, <<"o", 5>>>>

(***************************************************************************)
(* C12: patch generation does not modify its inputs: a call of Generate    *)
(* leaves the parsed diff and every FileSelection of the caller (path and  *)
(* range list) as they were before the call.                               *)
(***************************************************************************)
C12_InputsUnmodified ==
    [][Generate => (parsed' = parsed /\ selections' = selections)]_vars

\* The selections a:1 and a:2 on any diff of the model: after the call the
\* caller's first FileSelection reads a:1-2.
C12_FailingInput ==
    /\ Done
    /\ args = <<FileSelection("a", <<[Start |-> 1, End |-> 1]>>),
                FileSelection("a", <<[Start |-> 2, End |-> 2]>>)>>
    /\ selections = <<FileSelection("a", <<[Start |-> 1, End |-> 2]>>),
                      FileSelection("a", <<[Start |-> 2, End |-> 2]>>)>>

(***************************************************************************)
(* FileSelection.Merge on its own: a list of ranges as the callers of the  *)
(* package build it (every range has 1 <= Start <= End), in any order.     *)
(***************************************************************************)
\* Largest line number of the ranges handed to Merge.
MaxMergeLine == 4

\* Longest list of ranges handed to Merge.
MaxRanges == 3

MergeRanges ==
    {r \in [Start : 1..MaxMergeLine, End : 1..MaxMergeLine] : r.Start <= r.End}

RangeLists == UNION {[1..n -> MergeRanges] : n \in 0..MaxRanges}

InitMerge ==
    /\ call \in {[fn |-> "Merge", ranges |-> rs] : rs \in RangeLists}
    /\ result = <<>>
    /\ pc = "call"
    /\ GenIdle
    /\ StageIdle
    /\ FileIdle

\* fs.Merge(): result is fs.Ranges after the call.
CallMerge ==
    /\ pc = "call"
    /\ call.fn = "Merge"
    /\ result' = Merge(call.ranges)
    /\ pc' = "returned"
    /\ UNCHANGED <<call, genVars, stageVars, fileVars>>

NextMerge == CallMerge

SpecMerge == InitMerge /\ [][NextMerge]_vars

Returned(fn) == pc = "returned" /\ call.fn = fn

\* The line numbers a list of ranges covers.
CoverOf(rs) ==
    {n \in 0..(MaxMergeLine + 1) :
        \E k \in DOMAIN rs : rs[k].Start <= n /\ n <= rs[k].End}

\* Two ranges overlap or are adjacent: no line lies strictly between them.
Touch(r1, r2) == r1.Start <= r2.End + 1 /\ r2.Start <= r1.End + 1

(***************************************************************************)
(* C13: for any list of ranges, Merge leaves the ranges sorted ascending   *)
(* by start, no two of them overlapping or adjacent, and covering the      *)
(* same set of line numbers as before.                                     *)
(***************************************************************************)
C13_MergeNormalForm ==
    Returned("Merge") =>
        /\ \A i \in DOMAIN result : \A j \in DOMAIN result :
              i < j => /\ result[i].Start < result[j].Start
                       /\ ~Touch(result[i], result[j])
        /\ CoverOf(result) = CoverOf(call.ranges)

\* Three ranges out of order, two of them adjacent, one apart.
C13_Witness ==
    /\ Returned("Merge")
    /\ Len(call.ranges) = 3
    /\ call.ranges[1].Start > call.ranges[2].Start
    /\ call.ranges[3].Start = call.ranges[2].End + 1
    /\ Len(result) = 2

(***************************************************************************)
(* LineRange.String and parseRange.  A Go string is the sequence of its    *)
(* characters.                                                             *)
(***************************************************************************)
\* Largest line number of the ranges formatted and parsed back.
MaxRangeLine == 12

Digits == <<"0", "1", "2", "3", "4", "5", "6", "7", "8", "9">>

IsDigit(c) == \E d \in DOMAIN Digits : Digits[d] = c

DigitVal(c) == (CHOOSE d \in DOMAIN Digits : Digits[d] = c) - 1

\* strconv.Itoa: decimal, a minus sign in front of a negative number.
RECURSIVE Itoa(_)
Itoa(n) ==
    IF n < 0 THEN <<"-">> \o Itoa(0 - n)
    ELSE IF n < 10 THEN <<Digits[n + 1]>>
    ELSE Itoa(n \div 10) \o <<Digits[(n % 10) + 1]>>

RECURSIVE AtoiDigits(_, _)
AtoiDigits(s, acc) ==
    IF s = <<>> THEN acc ELSE AtoiDigits(Tail(s), acc * 10 + DigitVal(Head(s)))

\* strconv.Atoi: an optional sign and at least one digit, nothing else.
Atoi(s) ==
    LET signed == s # <<>> /\ Head(s) \in {"+", "-"}
        body == IF signed THEN Tail(s) ELSE s
    IN  IF body = <<>> \/ \E i \in DOMAIN body : ~IsDigit(body[i])
        THEN [ok |-> FALSE, val |-> 0]
        ELSE [ok |-> TRUE,
              val |-> IF signed /\ Head(s) = "-" THEN 0 - AtoiDigits(body, 0)
                      ELSE AtoiDigits(body, 0)]

\* strings.TrimSpace: white space off both ends.
WhiteSpace == {" ", "\t", "\n", "\r"}

RECURSIVE TrimSpace(_)
TrimSpace(s) ==
    IF s = <<>> THEN s
    ELSE IF Head(s) \in WhiteSpace THEN TrimSpace(Tail(s))
    ELSE IF s[Len(s)] \in WhiteSpace THEN TrimSpace(SubSeq(s, 1, Len(s) - 1))
    ELSE s

\* strings.Contains(s, c) for a one-character c.
ContainsChar(s, c) == \E i \in DOMAIN s : s[i] = c

\* strings.SplitN(s, c, 2) for a string that contains c: the text before
\* and the text after the first c.
SplitN2(s, c) ==
    LET at == CHOOSE i \in DOMAIN s : s[i] = c /\ \A k \in 1..(i - 1) : s[k] # c
    IN  <<SubSeq(s, 1, at - 1), SubSeq(s, at + 1, Len(s))>>

\* Mutant of LineRange.String: the start line only.
RangeStringStartOnly(r) == Itoa(r.Start)

\* LineRange.String: "10-20", or "15" for a single line.
RangeString(r) ==
    IF r.Start = r.End THEN Itoa(r.Start)
    ELSE Itoa(r.Start) \o <<"-">> \o Itoa(r.End)

RangeError(msg) == [err |-> msg, range |-> [Start |-> 0, End |-> 0]]

\* parseRange.
parseRange(str) ==
    LET s == TrimSpace(str) IN
    IF s = <<>> THEN RangeError("empty range")
    ELSE IF ContainsChar(s, "-") THEN
        LET parts == SplitN2(s, "-")
            start == Atoi(TrimSpace(parts[1]))
            end == Atoi(TrimSpace(parts[2]))
        IN  IF ~start.ok THEN RangeError("invalid start line")
            ELSE IF ~end.ok THEN RangeError("invalid end line")
            ELSE IF start.val > end.val
                THEN RangeError("start line greater than end line")
            ELSE IF start.val < 1 THEN RangeError("line numbers must be positive")
            ELSE [err |-> "nil", range |-> [Start |-> start.val, End |-> end.val]]
    ELSE LET line == Atoi(s) IN
         IF ~line.ok THEN RangeError("invalid line number")
         ELSE IF line.val < 1 THEN RangeError("line numbers must be positive")
         ELSE [err |-> "nil", range |-> [Start |-> line.val, End |-> line.val]]

\* A range with 1 <= Start <= End is formatted, then the text is parsed.
InitRange ==
    /\ call \in {[fn |-> "String", range |-> r] :
                    r \in {r \in [Start : 1..MaxRangeLine, End : 1..MaxRangeLine] :
                              r.Start <= r.End}}
    /\ result = <<>>
    /\ pc = "call"
    /\ GenIdle
    /\ StageIdle
    /\ FileIdle

CallString ==
    /\ pc = "call"
    /\ call.fn = "String"
    /\ result' = <<RangeString(call.range)>>
    /\ pc' = "formatted"
    /\ UNCHANGED <<call, genVars, stageVars, fileVars>>

CallParseRange ==
    /\ pc = "formatted"
    /\ result' = <<result[1], parseRange(result[1])>>
    /\ pc' = "returned"
    /\ UNCHANGED <<call, genVars, stageVars, fileVars>>

NextRange == CallString \/ CallParseRange

SpecRange == InitRange /\ [][NextRange]_vars

(***************************************************************************)
(* C14: for every LineRange with 1 <= start <= end, parsing the text that  *)
(* String formats it to succeeds and gives a range equal to the original.  *)
(***************************************************************************)
C14_RoundTrip ==
    Returned("String") => result[2].err = "nil" /\ result[2].range = call.range

\* A range of several lines whose numbers have two digits, parsed back.
C14_Witness ==
    /\ Returned("String")
    /\ call.range.Start >= 10 /\ call.range.End > call.range.Start
    /\ Len(result[1]) = 5
    /\ result[2].err = "nil"

(***************************************************************************)
(* package rebase: ActionType, RebaseAction, RebaseSpec.  An ActionType    *)
(* is a Go string, like the commit, the message and the command of an      *)
(* action: the sequence of its characters.                                  *)
(***************************************************************************)
ActionPick == <<"p", "i", "c", "k">>
ActionReword == <<"r", "e", "w", "o", "r", "d">>
ActionEdit == <<"e", "d", "i", "t">>
ActionSquash == <<"s", "q", "u", "a", "s", "h">>
ActionFixup == <<"f", "i", "x", "u", "p">>
ActionDrop == <<"d", "r", "o", "p">>
ActionExec == <<"e", "x", "e", "c">>

\* ActionType.Valid.
Valid(a) ==
    a \in {ActionPick, ActionReword, ActionEdit, ActionSquash,
           ActionFixup, ActionDrop, ActionExec}

RebaseAction(action, commit, message, command) ==
    [Action |-> action, Commit |-> commit, Message |-> message, Command |-> command]

\* Mutant of RebaseAction.Validate: an exec command is only required not to
\* be empty.
ActionValidateAnyCommand(a) ==
    IF ~Valid(a.Action) THEN "invalid action type"
    ELSE IF a.Action = ActionExec THEN
        IF a.Command = <<>> THEN "exec action requires a command" ELSE "nil"
    ELSE IF a.Commit = <<>> THEN "action requires a commit hash"
    ELSE "nil"

\* RebaseAction.Validate: the error it returns, "nil" for none.
ActionValidate(a) ==
    IF ~Valid(a.Action) THEN "invalid action type"
    ELSE IF a.Action = ActionExec THEN
        IF a.Command = <<>> THEN "exec action requires a command"
        ELSE IF ContainsChar(a.Command, "\n")
            THEN "exec command cannot contain newlines"
        ELSE "nil"
    ELSE IF a.Commit = <<>> THEN "action requires a commit hash"
    ELSE "nil"

\* The loop of RebaseSpec.Validate over the actions: the first error.
RECURSIVE ValidateActions(_)
ValidateActions(actions) ==
    IF actions = <<>> THEN "nil"
    ELSE IF ActionValidate(Head(actions)) # "nil" THEN ActionValidate(Head(actions))
    ELSE ValidateActions(Tail(actions))

\* Mutant of RebaseSpec.Validate: the first action may be anything.
SpecValidateAnyFirst(actions) ==
    IF Len(actions) = 0 THEN "rebase spec has no actions"
    ELSE ValidateActions(actions)

\* RebaseSpec.Validate.
SpecValidate(actions) ==
    IF Len(actions) = 0 THEN "rebase spec has no actions"
    ELSE IF ValidateActions(actions) # "nil" THEN ValidateActions(actions)
    ELSE IF actions[1].Action \in {ActionSquash, ActionFixup}
        THEN "cannot start with squash or fixup"
    ELSE "nil"

(***************************************************************************)
(* The CLI shorthand: ParseCLISpec, parseActionSpec, isCommitHash,         *)
(* splitPreservingQuotes.                                                   *)
(***************************************************************************)
HexChars ==
    {"0", "1", "2", "3", "4", "5", "6", "7", "8", "9",
     "a", "b", "c", "d", "e", "f", "A", "B", "C", "D", "E", "F"}

MinHashLen == 7

MaxHashLen == 40

\* isCommitHash: 7 to 40 hexadecimal characters.
isCommitHash(s) ==
    /\ Len(s) >= MinHashLen
    /\ Len(s) <= MaxHashLen
    /\ \A i \in DOMAIN s : s[i] \in HexChars

\* strings.ToLower, on the capital letters the inputs of the model hold.
ToLowerChar(c) ==
    CASE c = "P" -> "p" [] c = "S" -> "s" [] c = "F" -> "f"
      [] c = "X" -> "x" [] c = "D" -> "d" [] OTHER -> c

ToLower(s) == [i \in DOMAIN s |-> ToLowerChar(s[i])]

\* strings.Join(args, ",").
RECURSIVE JoinComma(_)
JoinComma(strs) ==
    IF strs = <<>> THEN <<>>
    ELSE IF Len(strs) = 1 THEN Head(strs)
    ELSE Head(strs) \o <<",">> \o JoinComma(Tail(strs))

\* splitPreservingQuotes from character i on; quoteChar is "" outside of
\* quotes.
RECURSIVE splitFrom(_, _, _, _, _)
splitFrom(s, i, parts, current, quoteChar) ==
    IF i > Len(s) THEN
        IF Len(current) > 0 THEN Append(parts, current) ELSE parts
    ELSE LET c == s[i] IN
         IF c \in {"\"", "'"} /\ quoteChar = "" THEN
             splitFrom(s, i + 1, parts, Append(current, c), c)
         ELSE IF c = quoteChar /\ quoteChar # "" THEN
             splitFrom(s, i + 1, parts, Append(current, c), "")
         ELSE IF c = "," /\ quoteChar = "" THEN
             IF Len(current) > 0
             THEN splitFrom(s, i + 1, Append(parts, current), <<>>, quoteChar)
             ELSE splitFrom(s, i + 1, parts, current, quoteChar)
         ELSE splitFrom(s, i + 1, parts, Append(current, c), quoteChar)

splitPreservingQuotes(s) == splitFrom(s, 1, <<>>, <<>>, "")

NoAction == RebaseAction(<<>>, <<>>, <<>>, <<>>)

\* Mutant of parseActionSpec: a token whose action part is no action name
\* is taken as a commit to pick.
parseActionSpecFallbackPick(s) ==
    IF ~ContainsChar(s, ":") \/ isCommitHash(s) THEN
        [err |-> "nil", action |-> RebaseAction(ActionPick, s, <<>>, <<>>)]
    ELSE LET halves == SplitN2(s, ":")
             action == ToLower(halves[1])
             rest == halves[2]
         IN  IF ~Valid(action) THEN
                 [err |-> "nil", action |-> RebaseAction(ActionPick, s, <<>>, <<>>)]
             ELSE IF action = ActionExec THEN
                 [err |-> "nil", action |-> RebaseAction(ActionExec, <<>>, <<>>, rest)]
             ELSE IF ContainsChar(rest, ":") THEN
                 LET parts == SplitN2(rest, ":") IN
                 [err |-> "nil",
                  action |-> RebaseAction(action, TrimSpace(parts[1]),
                                          TrimSpace(parts[2]), <<>>)]
             ELSE [err |-> "nil",
                   action |-> RebaseAction(action, TrimSpace(rest), <<>>, <<>>)]

\* parseActionSpec.
parseActionSpec(s) ==
    IF ~ContainsChar(s, ":") \/ isCommitHash(s) THEN
        [err |-> "nil", action |-> RebaseAction(ActionPick, s, <<>>, <<>>)]
    ELSE LET halves == SplitN2(s, ":")
             action == ToLower(halves[1])
             rest == halves[2]
         IN  IF ~Valid(action) THEN
                 IF isCommitHash(s)
                 THEN [err |-> "nil",
                       action |-> RebaseAction(ActionPick, s, <<>>, <<>>)]
                 ELSE [err |-> "unknown action", action |-> NoAction]
             ELSE IF action = ActionExec THEN
                 [err |-> "nil", action |-> RebaseAction(ActionExec, <<>>, <<>>, rest)]
             ELSE IF ContainsChar(rest, ":") THEN
                 LET parts == SplitN2(rest, ":") IN
                 [err |-> "nil",
                  action |-> RebaseAction(action, TrimSpace(parts[1]),
                                          TrimSpace(parts[2]), <<>>)]
             ELSE [err |-> "nil",
                   action |-> RebaseAction(action, TrimSpace(rest), <<>>, <<>>)]

\* The loop of ParseCLISpec over the parts.
RECURSIVE parseParts(_, _)
parseParts(parts, actions) ==
    IF parts = <<>> THEN [err |-> "nil", actions |-> actions]
    ELSE LET part == TrimSpace(Head(parts)) IN
         IF part = <<>> THEN parseParts(Tail(parts), actions)
         ELSE IF parseActionSpec(part).err # "nil"
             THEN [err |-> "invalid action", actions |-> <<>>]
         ELSE parseParts(Tail(parts), Append(actions, parseActionSpec(part).action))

\* ParseCLISpec: the error and the spec returned.
ParseCLISpec(cliArgs) ==
    IF Len(cliArgs) = 0 THEN [err |-> "no rebase actions specified", actions |-> <<>>]
    ELSE LET parsedParts == parseParts(splitPreservingQuotes(JoinComma(cliArgs)), <<>>)
         IN  IF parsedParts.err # "nil" THEN parsedParts
             ELSE IF SpecValidate(parsedParts.actions) # "nil"
                 THEN [err |-> SpecValidate(parsedParts.actions), actions |-> <<>>]
             ELSE parsedParts

\* ParseSpec on a JSON document: doc.valid says whether json.Unmarshal
\* accepts it, doc.actions is what it decodes to.
ParseSpec(doc) ==
    IF ~doc.valid THEN [err |-> "invalid JSON spec", actions |-> <<>>]
    ELSE IF SpecValidate(doc.actions) # "nil"
        THEN [err |-> SpecValidate(doc.actions), actions |-> <<>>]
    ELSE [err |-> "nil", actions |-> doc.actions]

(***************************************************************************)
(* Validation of rebase specs: RebaseSpec.Validate on a spec, ParseSpec    *)
(* on a JSON document, ParseCLISpec on command-line arguments.             *)
(***************************************************************************)
\* Longest list of actions of a spec handed to Validate or ParseSpec.
MaxActions == 2

\* Most command-line arguments handed to ParseCLISpec.
MaxCLIArgs == 2

HashA == <<"a", "b", "c", "1", "2", "3", "4">>

\* A command that would add a line to the todo file.
TwoLines == <<"l", "s", "\n", "p", "i", "c", "k", " ", "x">>

\* Actions as a JSON document can hold them: every field may be set.
SomeActions ==
    [Action : {ActionPick, ActionSquash, ActionFixup, ActionDrop,
               <<"b", "o", "g", "u", "s">>},
     Commit : {<<>>, HashA},
     Message : {<<>>},
     Command : {<<>>, TwoLines}]
    \cup
    [Action : {ActionExec},
     Commit : {<<>>, HashA},
     Message : {<<>>, <<"m", "s", "g">>},
     Command : {<<>>, <<"l", "s">>, TwoLines}]

ActionLists == UNION {[1..n -> SomeActions] : n \in 0..MaxActions}

CLITokens ==
    {HashA,
     ActionPick \o <<":">> \o HashA,
     ActionSquash \o <<":">> \o HashA,
     <<"S", "q", "u", "a", "s", "h", ":">> \o HashA,
     ActionFixup \o <<":">> \o HashA,
     ActionDrop \o <<":">> \o HashA,
     <<"s", ":">> \o HashA,
     <<"b", "o", "g", "u", "s", ":">> \o HashA,
     ActionPick \o <<":">>,
     ActionExec \o <<":", "l", "s">>,
     ActionExec \o <<":">> \o TwoLines,
     ActionReword \o <<":">> \o HashA \o <<":", "\"", "a", ",", "b", "\"">>,
     ActionFixup \o <<":">> \o HashA \o <<",">> \o ActionPick \o <<":">> \o HashA,
     <<" ">>,
     <<>>}

CLIArgLists == UNION {[1..n -> CLITokens] : n \in 0..MaxCLIArgs}

InitValidate ==
    /\ call \in {[fn |-> "Validate", actions |-> as] : as \in ActionLists}
            \cup {[fn |-> "ParseSpec", doc |-> [valid |-> TRUE, actions |-> as]] :
                     as \in ActionLists}
            \cup {[fn |-> "ParseSpec", doc |-> [valid |-> FALSE, actions |-> <<>>]]}
            \cup {[fn |-> "ParseCLISpec", args |-> as] : as \in CLIArgLists}
    /\ result = <<>>
    /\ pc = "call"
    /\ GenIdle
    /\ StageIdle
    /\ FileIdle

\* spec.Validate(): the error of the spec and of each of its actions.
CallValidate ==
    /\ pc = "call"
    /\ call.fn = "Validate"
    /\ result' = [err |-> SpecValidate(call.actions),
                  each |-> [i \in DOMAIN call.actions |->
                               ActionValidate(call.actions[i])]]
    /\ pc' = "returned"
    /\ UNCHANGED <<call, genVars, stageVars, fileVars>>

CallParseSpec ==
    /\ pc = "call"
    /\ call.fn = "ParseSpec"
    /\ result' = ParseSpec(call.doc)
    /\ pc' = "returned"
    /\ UNCHANGED <<call, genVars, stageVars, fileVars>>

CallParseCLISpec ==
    /\ pc = "call"
    /\ call.fn = "ParseCLISpec"
    /\ result' = ParseCLISpec(call.args)
    /\ pc' = "returned"
    /\ UNCHANGED <<call, genVars, stageVars, fileVars>>

NextValidate == CallValidate \/ CallParseSpec \/ CallParseCLISpec

SpecValidation == InitValidate /\ [][NextValidate]_vars

HasNewline(s) == \E i \in DOMAIN s : s[i] = "\n"

(***************************************************************************)
(* C15 as stated: any action whose command contains a newline fails        *)
(* validation, whatever its other fields, and so does every spec that      *)
(* carries such an action.                                                  *)
(***************************************************************************)
C15_AnyNewlineRejected ==
    Returned("Validate") =>
        \A i \in DOMAIN call.actions :
            HasNewline(call.actions[i].Command) =>
                result.each[i] # "nil" /\ result.err # "nil"

(***************************************************************************)
(* C15 amended: any exec action whose command contains a newline fails     *)
(* validation, whatever its commit and message, and no spec carrying such  *)
(* an action is accepted by Validate, ParseSpec or ParseCLISpec.           *)
(***************************************************************************)
C15_ExecNewlineRejected ==
    /\ Returned("Validate") =>
          \A i \in DOMAIN call.actions :
              (call.actions[i].Action = ActionExec
                  /\ HasNewline(call.actions[i].Command)) =>
                  result.each[i] # "nil" /\ result.err # "nil"
    /\ (Returned("ParseSpec") \/ Returned("ParseCLISpec")) =>
          \A i \in DOMAIN result.actions :
              result.actions[i].Action = ActionExec =>
                  ~HasNewline(result.actions[i].Command)

\* A spec whose first action is valid and whose second is an exec with a
\* newline in its command and a commit and a message besides.
C15_Witness ==
    /\ Returned("Validate")
    /\ Len(call.actions) = 2
    /\ result.each[1] = "nil"
    /\ call.actions[2].Action = ActionExec
    /\ HasNewline(call.actions[2].Command)
    /\ call.actions[2].Commit # <<>> /\ call.actions[2].Message # <<>>
    /\ result.each[2] = "exec command cannot contain newlines"
    /\ result.err = "exec command cannot contain newlines"

OpensWithSquash(actions) ==
    Len(actions) >= 1 /\ actions[1].Action \in {ActionSquash, ActionFixup}

(***************************************************************************)
(* C16: every spec accepted by validation, directly, parsed from JSON or   *)
(* parsed from the CLI shorthand, has at least one action and its first    *)
(* action is neither squash nor fixup; empty specs and specs that open     *)
(* with squash or fixup are rejected.                                      *)
(***************************************************************************)
C16_AcceptedSpecShape ==
    /\ Returned("Validate") =>
          ((call.actions = <<>> \/ OpensWithSquash(call.actions)) => result.err # "nil")
    /\ Returned("ParseSpec") =>
          /\ (call.doc.actions = <<>> \/ OpensWithSquash(call.doc.actions)) =>
                result.err # "nil"
          /\ result.err = "nil" => result.actions = call.doc.actions
    /\ Returned("ParseCLISpec") =>
          (result.err = "nil" =>
              result.actions # <<>> /\ ~OpensWithSquash(result.actions))

\* The shorthand "fixup:abc1234,pick:abc1234": both actions are valid, the
\* spec is rejected for its first action.
C16_Witness ==
    /\ Returned("ParseCLISpec")
    /\ Len(call.args) = 1
    /\ parseParts(splitPreservingQuotes(call.args[1]), <<>>).err = "nil"
    /\ OpensWithSquash(parseParts(splitPreservingQuotes(call.args[1]), <<>>).actions)
    /\ Len(parseParts(splitPreservingQuotes(call.args[1]), <<>>).actions) = 2
    /\ result.err = "cannot start with squash or fixup"

(***************************************************************************)
(* The todo model: TodoEntry, ValidateAgainstCommits, ReorderToMatchSpec,  *)
(* findCommit.  Go leaves the order in which a map is walked open, so a    *)
(* lookup that walks a map has every outcome some order gives.             *)
(***************************************************************************)
TodoEntry(action, commit, subject) ==
    [Action |-> action, Commit |-> commit, Subject |-> subject]

\* strings.HasPrefix(s, prefix).
HasPrefix(s, prefix) ==
    Len(prefix) <= Len(s) /\ SubSeq(s, 1, Len(prefix)) = prefix

ShortHashLen == 7

\* The keys both functions file the entries of the original todo under:
\* every commit, and its first 7 characters when it has that many.
KeysOf(entry) ==
    {entry.Commit}
    \cup (IF Len(entry.Commit) >= ShortHashLen
          THEN {SubSeq(entry.Commit, 1, ShortHashLen)} ELSE {})

validCommits(original) == UNION {KeysOf(original[i]) : i \in DOMAIN original}

\* The prefix test of ValidateAgainstCommits and findCommit.
PrefixMatch(key, commit) == HasPrefix(key, commit) \/ HasPrefix(commit, key)

\* ValidateAgainstCommits from action i on: the error, and the number and
\* the commit of the action it names.
RECURSIVE ValidateAgainstCommits(_, _, _)
ValidateAgainstCommits(actions, original, i) ==
    IF i > Len(actions) THEN [err |-> "nil", action |-> 0, commit |-> <<>>]
    ELSE IF actions[i].Action = ActionExec
        THEN ValidateAgainstCommits(actions, original, i + 1)
    ELSE IF \E key \in validCommits(original) : PrefixMatch(key, actions[i].Commit)
        THEN ValidateAgainstCommits(actions, original, i + 1)
    ELSE [err |-> "not found in rebase range", action |-> i,
          commit |-> actions[i].Commit]

\* commitMap[key]: the last entry of the original todo filed under key.
commitMap(original, key) ==
    original[SetMax({i \in DOMAIN original : key \in KeysOf(original[i])})]

\* findCommit: the entries it can return, none when it finds nothing.
findCommit(original, commit) ==
    IF commit \in validCommits(original) THEN {commitMap(original, commit)}
    ELSE {commitMap(original, key) :
             key \in {k \in validCommits(original) : PrefixMatch(k, commit)}}

\* The entries ReorderToMatchSpec can emit for one action.
EntriesFor(action, original) ==
    IF action.Action = ActionExec
    THEN {TodoEntry(ActionExec, <<>>, action.Command)}
    ELSE {TodoEntry(action.Action, e.Commit, e.Subject) :
             e \in findCommit(original, action.Commit)}

\* ReorderToMatchSpec: the results it can return.
RECURSIVE ReorderToMatchSpec(_, _)
ReorderToMatchSpec(actions, original) ==
    IF actions = <<>> THEN {[err |-> "nil", entries |-> <<>>]}
    ELSE IF EntriesFor(Head(actions), original) = {}
        THEN {[err |-> "commit not found", entries |-> <<>>]}
    ELSE {IF rest.err # "nil" THEN rest
          ELSE [err |-> "nil", entries |-> <<e>> \o rest.entries] :
             e \in EntriesFor(Head(actions), original),
             rest \in ReorderToMatchSpec(Tail(actions), original)}

\* Most entries of an original todo, most actions of a spec applied to it.
MaxEntries == 2

MaxTodoActions == 2

HashB == <<"1", "1", "1", "2", "2", "2", "3">>

\* Entries as git writes them: two commits that share their first seven
\* characters, and one abbreviated to seven characters.
EntryPool ==
    {TodoEntry(ActionPick, HashA \o <<"d", "e">>, <<"o", "n", "e">>),
     TodoEntry(ActionPick, HashA \o <<"f", "f">>, <<"t", "w", "o">>),
     TodoEntry(ActionPick, HashB, <<"t", "r", "e">>)}

Originals == UNION {[1..n -> EntryPool] : n \in 0..MaxEntries}

\* Commit references of a spec: a full hash, the short hash, a shorter
\* prefix, a hash longer than the todo's, a hash that goes on differently
\* after the short hash, a hash of no entry.
CommitRefs ==
    {HashA \o <<"d", "e">>, HashA, <<"a", "b", "c">>, HashB, HashB \o <<"a", "a">>,
     HashA \o <<"0", "0">>, HashA \o <<"d">>, <<"f", "f", "f", "0", "0", "0", "0">>}

TodoActionPool ==
    {RebaseAction(a, c, <<>>, <<>>) : a \in {ActionPick, ActionSquash}, c \in CommitRefs}
    \cup {RebaseAction(ActionExec, <<>>, <<>>, <<"l", "s">>)}

TodoActionLists == UNION {[1..n -> TodoActionPool] : n \in 0..MaxTodoActions}

InitTodo ==
    /\ call \in [fn : {"ValidateAgainstCommits", "ReorderToMatchSpec"},
                 actions : TodoActionLists,
                 original : Originals]
    /\ result = <<>>
    /\ pc = "call"
    /\ GenIdle
    /\ StageIdle
    /\ FileIdle

CallValidateAgainstCommits ==
    /\ pc = "call"
    /\ call.fn = "ValidateAgainstCommits"
    /\ result' = ValidateAgainstCommits(call.actions, call.original, 1)
    /\ pc' = "returned"
    /\ UNCHANGED <<call, genVars, stageVars, fileVars>>

CallReorderToMatchSpec ==
    /\ pc = "call"
    /\ call.fn = "ReorderToMatchSpec"
    /\ result' \in ReorderToMatchSpec(call.actions, call.original)
    /\ pc' = "returned"
    /\ UNCHANGED <<call, genVars, stageVars, fileVars>>

NextTodo == CallValidateAgainstCommits \/ CallReorderToMatchSpec

SpecTodo == InitTodo /\ [][NextTodo]_vars

\* A commit reference identifies an entry of the todo: the two hashes are
\* equal or one of them is the beginning of the other.
Identifies(ref, entry) == HasPrefix(entry.Commit, ref) \/ HasPrefix(ref, entry.Commit)

\* Action i of the call is not exec and its commit identifies no entry of
\* the original todo.
Unknown(i) ==
    /\ call.actions[i].Action # ActionExec
    /\ \A k \in DOMAIN call.original :
          ~Identifies(call.actions[i].Commit, call.original[k])

(***************************************************************************)
(* C17: a spec with a non-exec action whose commit identifies no commit    *)
(* of the original todo is rejected by ValidateAgainstCommits, and the     *)
(* error names the commit of such an action.                               *)
(***************************************************************************)
C17_UnknownCommitRejected ==
    Returned("ValidateAgainstCommits") =>
        ((\E i \in DOMAIN call.actions : Unknown(i)) =>
            /\ result.err # "nil"
            /\ result.action \in DOMAIN call.actions
            /\ Unknown(result.action)
            /\ result.commit = call.actions[result.action].Commit)

\* The original todo holds abc1234de; the spec picks abc123400, which is
\* not that commit, and ValidateAgainstCommits accepts it.
C17_FailingInput ==
    /\ Returned("ValidateAgainstCommits")
    /\ call.original = <<TodoEntry(ActionPick, HashA \o <<"d", "e">>, <<"o", "n", "e">>)>>
    /\ call.actions = <<RebaseAction(ActionPick, HashA \o <<"0", "0">>, <<>>, <<>>)>>
    /\ result.err = "nil"

(***************************************************************************)
(* C19: ReorderToMatchSpec returns one entry for every action of the spec, *)
(* in the order of the spec: entry i has the action type of action i and,  *)
(* when that action is not exec, the commit and the subject of an entry of *)
(* the original todo that the commit of action i identifies.               *)
(***************************************************************************)
C19_OneEntryPerAction ==
    (Returned("ReorderToMatchSpec") /\ result.err = "nil") =>
        /\ Len(result.entries) = Len(call.actions)
        /\ \A i \in DOMAIN call.actions :
              /\ result.entries[i].Action = call.actions[i].Action
              /\ call.actions[i].Action # ActionExec =>
                    \E k \in DOMAIN call.original :
                        /\ Identifies(call.actions[i].Commit, call.original[k])
                        /\ result.entries[i].Commit = call.original[k].Commit
                        /\ result.entries[i].Subject = call.original[k].Subject

\* The original todo holds abc1234de and abc1234ff; the spec picks abc1234d,
\* which is the beginning of the first only, and the entry returned is the
\* second.
C19_FailingInput ==
    /\ Returned("ReorderToMatchSpec")
    /\ Len(call.original) = 2
    /\ call.original[1].Commit = HashA \o <<"d", "e">>
    /\ call.original[2].Commit = HashA \o <<"f", "f">>
    /\ call.actions = <<RebaseAction(ActionPick, HashA \o <<"d">>, <<>>, <<>>)>>
    /\ result.err = "nil"
    /\ result.entries[1].Commit = HashA \o <<"f", "f">>

(***************************************************************************)
(* The todo file: ParseTodoFile, parseTodoLine, expandShortAction,         *)
(* GenerateTodoFromEntries.  A file is the sequence of its lines.          *)
(***************************************************************************)
\* strings.Fields from character i on.
RECURSIVE FieldsFrom(_, _, _, _)
FieldsFrom(s, i, fields, current) ==
    IF i > Len(s) THEN
        IF current # <<>> THEN Append(fields, current) ELSE fields
    ELSE IF s[i] \in WhiteSpace THEN
        FieldsFrom(s, i + 1,
                   IF current # <<>> THEN Append(fields, current) ELSE fields, <<>>)
    ELSE FieldsFrom(s, i + 1, fields, Append(current, s[i]))

Fields(s) == FieldsFrom(s, 1, <<>>, <<>>)

\* strings.Join(strs, " ").
RECURSIVE JoinSpace(_)
JoinSpace(strs) ==
    IF strs = <<>> THEN <<>>
    ELSE IF Len(strs) = 1 THEN Head(strs)
    ELSE Head(strs) \o <<" ">> \o JoinSpace(Tail(strs))

expandShortAction(s) ==
    CASE s \in {<<"p">>, ActionPick} -> ActionPick
      [] s \in {<<"r">>, ActionReword} -> ActionReword
      [] s \in {<<"e">>, ActionEdit} -> ActionEdit
      [] s \in {<<"s">>, ActionSquash} -> ActionSquash
      [] s \in {<<"f">>, ActionFixup} -> ActionFixup
      [] s \in {<<"d">>, ActionDrop} -> ActionDrop
      [] s \in {<<"x">>, ActionExec} -> ActionExec
      [] OTHER -> s

\* parseTodoLine: the entry, and whether the line is one.
parseTodoLine(line) ==
    LET fields == Fields(line) IN
    IF Len(fields) < 2 THEN [ok |-> FALSE, entry |-> TodoEntry(<<>>, <<>>, <<>>)]
    ELSE LET action == expandShortAction(ToLower(fields[1])) IN
         IF ~Valid(action) THEN [ok |-> FALSE, entry |-> TodoEntry(<<>>, <<>>, <<>>)]
         ELSE [ok |-> TRUE,
               entry |-> TodoEntry(action, fields[2],
                                   IF Len(fields) > 2
                                   THEN JoinSpace(SubSeq(fields, 3, Len(fields)))
                                   ELSE <<>>)]

\* ParseTodoFile: empty lines and comments are skipped.
RECURSIVE ParseTodoFile(_)
ParseTodoFile(lines) ==
    IF lines = <<>> THEN <<>>
    ELSE LET line == TrimSpace(Head(lines)) IN
         IF line = <<>> \/ HasPrefix(line, <<"#">>) THEN ParseTodoFile(Tail(lines))
         ELSE IF parseTodoLine(line).ok
             THEN <<parseTodoLine(line).entry>> \o ParseTodoFile(Tail(lines))
         ELSE ParseTodoFile(Tail(lines))

\* GenerateTodoFromEntries: one line for every entry.
RECURSIVE GenerateTodoFromEntries(_)
GenerateTodoFromEntries(entries) ==
    IF entries = <<>> THEN <<>>
    ELSE LET entry == Head(entries) IN
         <<IF entry.Action = ActionExec THEN ActionExec \o <<" ">> \o entry.Subject
           ELSE entry.Action \o <<" ">> \o entry.Commit \o <<" ">> \o entry.Subject>>
         \o GenerateTodoFromEntries(Tail(entries))

(***************************************************************************)
(* The sequence editor: applyRebaseSpec on a spec file and the todo file.  *)
(***************************************************************************)
\* Mutant of applyRebaseSpec: the spec is not validated against the todo
\* before the file is opened for writing.
applyRebaseSpecWriteFirst(specFile, todo) ==
    LET spec == ParseSpec(specFile)
        originalEntries == ParseTodoFile(todo)
    IN  IF spec.err # "nil" THEN {[err |-> "invalid spec", todo |-> todo]}
        ELSE IF Len(originalEntries) = 0
            THEN {[err |-> "no commits found in rebase todo", todo |-> todo]}
        ELSE {IF r.err # "nil" THEN [err |-> r.err, todo |-> <<>>]
              ELSE [err |-> "nil", todo |-> GenerateTodoFromEntries(r.entries)] :
                 r \in ReorderToMatchSpec(spec.actions, originalEntries)}

\* applyRebaseSpec: the errors it can return, each with the content it
\* leaves in the todo file.
applyRebaseSpec(specFile, todo) ==
    LET spec == ParseSpec(specFile)
        originalEntries == ParseTodoFile(todo)
        checked == ValidateAgainstCommits(spec.actions, originalEntries, 1)
    IN  IF spec.err # "nil" THEN {[err |-> "invalid spec", todo |-> todo]}
        ELSE IF Len(originalEntries) = 0
            THEN {[err |-> "no commits found in rebase todo", todo |-> todo]}
        ELSE IF checked.err # "nil" THEN {[err |-> checked.err, todo |-> todo]}
        ELSE {IF r.err # "nil" THEN [err |-> r.err, todo |-> todo]
              ELSE [err |-> "nil", todo |-> GenerateTodoFromEntries(r.entries)] :
                 r \in ReorderToMatchSpec(spec.actions, originalEntries)}

\* Most lines of the todo file git writes.
MaxTodoLines == 2

TodoLines ==
    {ActionPick \o <<" ">> \o HashA \o <<"d", "e", " ", "o", "n", "e">>,
     ActionPick \o <<" ">> \o HashA \o <<"f", "f", " ", "t", "w", "o", " ", "b">>,
     <<"p", " ">> \o HashB \o <<" ", "t", "r", "e">>,
     <<"#", " ", "R", "e", "b", "a", "s", "e">>,
     <<>>}

TodoFiles == UNION {[1..n -> TodoLines] : n \in 0..MaxTodoLines}

SpecFiles ==
    {[valid |-> TRUE, actions |-> as] : as \in TodoActionLists}
    \cup {[valid |-> FALSE, actions |-> <<>>]}

InitApply ==
    /\ call \in [fn : {"applyRebaseSpec"}, specFile : SpecFiles, todo : TodoFiles]
    /\ todoFile = call.todo
    /\ gitState = <<>>
    /\ result = <<>>
    /\ pc = "call"
    /\ GenIdle
    /\ staging = <<>> /\ worktree = <<>> /\ log = <<>>

\* git runs `hunk _apply-spec SPECFILE TODOFILE`.
ApplyRebaseSpec ==
    /\ pc = "call"
    /\ call.fn = "applyRebaseSpec"
    /\ \E r \in applyRebaseSpec(call.specFile, todoFile) :
          /\ todoFile' = r.todo
          /\ result' = r.err
    /\ pc' = "returned"
    /\ UNCHANGED <<call, genVars, stageVars, gitState>>

NextApply == ApplyRebaseSpec

SpecApply == InitApply /\ [][NextApply]_vars

(***************************************************************************)
(* C18: no partial rewrite.  When applyRebaseSpec fails (invalid spec,     *)
(* empty todo, a commit that is not in the original todo, an unresolved    *)
(* commit reference) the todo file holds what it held before; the file is  *)
(* rewritten only on success, with one line for every action of the spec.  *)
(***************************************************************************)
C18_NoPartialRewrite ==
    Returned("applyRebaseSpec") =>
        /\ result # "nil" => todoFile = call.todo
        /\ result = "nil" => Len(todoFile) = Len(call.specFile.actions)

\* A valid spec of two actions whose first commit is in the todo and whose
\* second is not: the command fails and the file is as it was.
C18_Witness ==
    /\ Returned("applyRebaseSpec")
    /\ Len(call.specFile.actions) = 2
    /\ Len(ParseTodoFile(call.todo)) = 2
    /\ ValidateAgainstCommits(call.specFile.actions, ParseTodoFile(call.todo), 1).action = 2
    /\ result = "not found in rebase range"
    /\ todoFile = call.todo

(***************************************************************************)
(* Autosquash: buildAutosquashPlan, findTargetCommit,                      *)
(* reorderForAutosquash.  The commits are those `git log --reverse` lists: *)
(* their hashes differ.                                                    *)
(***************************************************************************)
FixupPrefix == <<"f", "i", "x", "u", "p", "!", " ">>
SquashPrefix == <<"s", "q", "u", "a", "s", "h", "!", " ">>

CommitInfo(hash, subject) == [Hash |-> hash, Subject |-> subject]

commitEntry(info, action, target) == [info |-> info, action |-> action, target |-> target]

isFixupCommit(subject) == HasPrefix(subject, FixupPrefix)

isSquashCommit(subject) == HasPrefix(subject, SquashPrefix)

\* strings.TrimPrefix.
TrimPrefix(s, prefix) ==
    IF HasPrefix(s, prefix) THEN SubSeq(s, Len(prefix) + 1, Len(s)) ELSE s

\* The keys of subjectToHash: the subjects of the commits that are neither
\* fixup nor squash commits.
IndexedSubjects(commits) ==
    {commits[i].Subject : i \in {k \in DOMAIN commits :
        ~isFixupCommit(commits[k].Subject) /\ ~isSquashCommit(commits[k].Subject)}}

\* subjectToHash[subject]: the last commit with the subject wrote the key.
subjectToHash(commits, subject) ==
    commits[SetMax({i \in DOMAIN commits : commits[i].Subject = subject})].Hash

\* What a call of findTargetCommit that never returns leaves: the goroutine
\* stack grows until the runtime ends the program.
StackOverflow == <<"s", "t", "a", "c", "k", " ", "o", "v", "e", "r", "f", "l", "o", "w">>

\* findTargetCommit: the values it can return, by the order in which the
\* range over subjectToHash meets the keys.  A call that reaches the nested
\* case with a subject its prefix does not shorten calls itself with the
\* same arguments, without end.
RECURSIVE findTargetCommit(_, _, _)
findTargetCommit(subject, prefix, commits) ==
    LET targetSubject == TrimPrefix(subject, prefix)
        byPrefix == {subjectToHash(commits, subj) :
                        subj \in {k \in IndexedSubjects(commits) :
                                     HasPrefix(k, targetSubject)}}
    IN  IF targetSubject \in IndexedSubjects(commits)
            THEN {subjectToHash(commits, targetSubject)}
        ELSE IF byPrefix # {} THEN byPrefix
        ELSE IF HasPrefix(targetSubject, FixupPrefix)
                \/ HasPrefix(targetSubject, SquashPrefix)
            THEN IF targetSubject = subject /\ prefix = FixupPrefix
                 THEN {StackOverflow}
                 ELSE findTargetCommit(targetSubject, FixupPrefix, commits)
        ELSE {<<>>}

\* The entries the second pass of buildAutosquashPlan can create for one
\* commit.
EntriesOfCommit(c, commits) ==
    IF isFixupCommit(c.Subject)
    THEN {commitEntry(c, ActionFixup, t) :
             t \in findTargetCommit(c.Subject, FixupPrefix, commits)}
    ELSE IF isSquashCommit(c.Subject)
    THEN {commitEntry(c, ActionSquash, t) :
             t \in findTargetCommit(c.Subject, SquashPrefix, commits)}
    ELSE {commitEntry(c, ActionPick, <<>>)}

\* The entry lists of the second pass, from commit i on.
RECURSIVE EntryLists(_, _)
EntryLists(commits, i) ==
    IF i > Len(commits) THEN {<<>>}
    ELSE {<<e>> \o rest : e \in EntriesOfCommit(commits[i], commits),
                          rest \in EntryLists(commits, i + 1)}

\* placed[hash].
Placed(res, hash) == \E k \in DOMAIN res : res[k].info.Hash = hash

\* fixupsByTarget[hash]: the entries with that target, in their order.
fixupsByTarget(entries, hash) ==
    LET Targets(e) == e.target # <<>> /\ e.target = hash
    IN  SelectSeq(entries, Targets)

\* Appends the entries of a list that are not placed yet.
RECURSIVE PlaceAll(_, _)
PlaceAll(list, res) ==
    IF list = <<>> THEN res
    ELSE PlaceAll(Tail(list),
                  IF Placed(res, Head(list).info.Hash) THEN res
                  ELSE Append(res, Head(list)))

\* The loop of reorderForAutosquash that places the commits in order, each
\* followed by the fixups that target it, from entry i on.
RECURSIVE PlaceInOrder(_, _, _)
PlaceInOrder(entries, i, res) ==
    IF i > Len(entries) THEN res
    ELSE LET e == entries[i] IN
         IF Placed(res, e.info.Hash) \/ e.target # <<>>
         THEN PlaceInOrder(entries, i + 1, res)
         ELSE PlaceInOrder(entries, i + 1,
                           PlaceAll(fixupsByTarget(entries, e.info.Hash),
                                    Append(res, e)))

\* Mutant of reorderForAutosquash: the fixups follow all other commits.
reorderForAutosquashFixupsLast(entries) ==
    LET NoTarget(e) == e.target = <<>>
        HasTarget(e) == e.target # <<>>
    IN  SelectSeq(entries, NoTarget) \o SelectSeq(entries, HasTarget)

\* Mutant of reorderForAutosquash: the commits that fixups target are placed
\* first, each with its fixups, and the other commits after them.
reorderForAutosquashTargetsFirst(entries) ==
    LET Targeted(e) == e.target # <<>> \/ fixupsByTarget(entries, e.info.Hash) # <<>>
    IN  PlaceAll(entries, PlaceInOrder(SelectSeq(entries, Targeted), 1, <<>>))

reorderForAutosquash(entries) ==
    PlaceAll(entries, PlaceInOrder(entries, 1, <<>>))

\* The actions of the spec built from the reordered entries.
RECURSIVE PlanActions(_)
PlanActions(reordered) ==
    IF reordered = <<>> THEN <<>>
    ELSE <<RebaseAction(Head(reordered).action, Head(reordered).info.Hash, <<>>, <<>>)>>
         \o PlanActions(Tail(reordered))

\* fixupCount.
FixupCount(commits) ==
    Cardinality({i \in DOMAIN commits :
        isFixupCommit(commits[i].Subject) \/ isSquashCommit(commits[i].Subject)})

\* buildAutosquashPlan: the results it can return; none of them when a
\* call of findTargetCommit does not return.
buildAutosquashPlan(commits) ==
    {[entries |-> entries,
      plan |-> PlanActions(reorderForAutosquash(entries)),
      fixupCount |-> FixupCount(commits)] :
        entries \in {es \in EntryLists(commits, 1) :
                        \A k \in DOMAIN es : es[k].target # StackOverflow}}

Overflows(commits) ==
    \E es \in EntryLists(commits, 1) : \E k \in DOMAIN es : es[k].target = StackOverflow

\* Most commits between the base and HEAD.
MaxCommits == 4

\* The hash of the i-th commit.
HashOf(i) == <<"c", "0", "0", "0", "0", "0">> \o Itoa(i)

SubjectA == <<"A">>

Subjects ==
    {SubjectA, <<"A", "B">>, <<"B">>,
     FixupPrefix \o SubjectA, SquashPrefix \o SubjectA,
     FixupPrefix \o <<"B">>,
     FixupPrefix \o FixupPrefix \o SubjectA,
     FixupPrefix \o SquashPrefix \o SubjectA,
     FixupPrefix \o <<"Z">>}

\* The commits with the subjects of a list, oldest first.
CommitsOf(subjects) ==
    [i \in DOMAIN subjects |-> CommitInfo(HashOf(i), subjects[i])]

InitAutosquash ==
    /\ \E n \in 1..MaxCommits : \E subjects \in [1..n -> Subjects] :
          call = [fn |-> "buildAutosquashPlan", commits |-> CommitsOf(subjects)]
    /\ result = <<>>
    /\ pc = "call"
    /\ GenIdle
    /\ StageIdle
    /\ FileIdle

\* runRebaseAutosquash builds the plan of the commits RebaseList returned.
BuildAutosquashPlan ==
    /\ pc = "call"
    /\ call.fn = "buildAutosquashPlan"
    /\ IF Overflows(call.commits)
       THEN /\ pc' = "crashed"
            /\ result' = <<>>
       ELSE /\ pc' = "returned"
            /\ result' \in buildAutosquashPlan(call.commits)
    /\ UNCHANGED <<call, genVars, stageVars, fileVars>>

NextAutosquash == BuildAutosquashPlan

SpecAutosquash == InitAutosquash /\ [][NextAutosquash]_vars

\* The target buildAutosquashPlan resolved for the commit with a hash.
TargetOf(hash) ==
    LET k == CHOOSE n \in DOMAIN result.entries : result.entries[n].info.Hash = hash
    IN  result.entries[k].target

(***************************************************************************)
(* C20: in the autosquash plan every fixup!/squash! commit whose target is *)
(* resolved comes after its target, and every commit of the plan between   *)
(* the target and that commit is a fixup or squash of the same target.     *)
(***************************************************************************)
C20_FixupsFollowTarget ==
    Returned("buildAutosquashPlan") =>
        \A j \in DOMAIN result.plan :
            TargetOf(result.plan[j].Commit) # <<>> =>
                \E i \in 1..(j - 1) :
                    /\ result.plan[i].Commit = TargetOf(result.plan[j].Commit)
                    /\ \A k \in (i + 1)..(j - 1) :
                          /\ result.plan[k].Action \in {ActionFixup, ActionSquash}
                          /\ TargetOf(result.plan[k].Commit)
                                = TargetOf(result.plan[j].Commit)

\* The commits A, B, fixup! A, squash! A: the plan is A, its fixup, its
\* squash, B.
C20_Witness ==
    /\ Returned("buildAutosquashPlan")
    /\ Len(call.commits) = 4
    /\ call.commits[1].Subject = SubjectA
    /\ call.commits[2].Subject = <<"B">>
    /\ call.commits[3].Subject = FixupPrefix \o SubjectA
    /\ call.commits[4].Subject = SquashPrefix \o SubjectA
    /\ result.plan = <<RebaseAction(ActionPick, HashOf(1), <<>>, <<>>),
                       RebaseAction(ActionFixup, HashOf(3), <<>>, <<>>),
                       RebaseAction(ActionSquash, HashOf(4), <<>>, <<>>),
                       RebaseAction(ActionPick, HashOf(2), <<>>, <<>>)>>

\* A commit with a fixup! or squash! subject.
FixupOrSquash(c) == isFixupCommit(c.Subject) \/ isSquashCommit(c.Subject)

\* The commit with a hash is at place n of the plan.
PlannedAt(hash, n) == n \in DOMAIN result.plan /\ result.plan[n].Commit = hash

(***************************************************************************)
(* C21: the autosquash plan keeps the relative order of the commits that   *)
(* are not fixup!/squash! commits: when X is before Y in the input and     *)
(* neither is a fixup/squash commit, X is before Y in the plan.            *)
(***************************************************************************)
C21_OtherCommitsKeepOrder ==
    Returned("buildAutosquashPlan") =>
        \A x, y \in DOMAIN call.commits :
            (x < y /\ ~FixupOrSquash(call.commits[x]) /\ ~FixupOrSquash(call.commits[y])) =>
                \E i, j \in DOMAIN result.plan :
                    /\ i < j
                    /\ PlannedAt(call.commits[x].Hash, i)
                    /\ PlannedAt(call.commits[y].Hash, j)

\* The commits B, A, fixup! A: the fixup moves, B stays before A.
C21_Witness ==
    /\ Returned("buildAutosquashPlan")
    /\ Len(call.commits) = 3
    /\ call.commits[1].Subject = <<"B">>
    /\ call.commits[2].Subject = SubjectA
    /\ call.commits[3].Subject = FixupPrefix \o SubjectA
    /\ PlannedAt(HashOf(1), 1)
    /\ PlannedAt(HashOf(2), 2)
    /\ PlannedAt(HashOf(3), 3)

\* Commit x of the input is a fixup!/squash! commit whose target was not
\* resolved.
Unresolved(x) ==
    /\ FixupOrSquash(call.commits[x])
    /\ TargetOf(call.commits[x].Hash) = <<>>

(***************************************************************************)
(* C22: a fixup!/squash! commit whose target is not resolved is in the     *)
(* plan, after every commit that is not an unresolved fixup/squash commit. *)
(***************************************************************************)
C22_UnresolvedAtEnd ==
    Returned("buildAutosquashPlan") =>
        \A x \in DOMAIN call.commits :
            Unresolved(x) =>
                \E j \in DOMAIN result.plan :
                    /\ PlannedAt(call.commits[x].Hash, j)
                    /\ \A y \in DOMAIN call.commits :
                          ~Unresolved(y) =>
                              \E i \in 1..(j - 1) : PlannedAt(call.commits[y].Hash, i)

\* The commits fixup! Z, A: the plan is the fixup, then A.
C22_FailingInput ==
    /\ Returned("buildAutosquashPlan")
    /\ Len(call.commits) = 2
    /\ call.commits[1].Subject = FixupPrefix \o <<"Z">>
    /\ call.commits[2].Subject = SubjectA
    /\ PlannedAt(HashOf(1), 1)
    /\ PlannedAt(HashOf(2), 2)

(***************************************************************************)
(* The CLI shorthand ACTION:COMMIT: parseActionSpec on one token.          *)
(***************************************************************************)
ActionTypes ==
    {ActionPick, ActionReword, ActionEdit, ActionSquash, ActionFixup, ActionDrop,
     ActionExec}

\* ActionType.ShortForm.
ShortForm(a) ==
    CASE a = ActionPick -> <<"p">>
      [] a = ActionReword -> <<"r">>
      [] a = ActionEdit -> <<"e">>
      [] a = ActionSquash -> <<"s">>
      [] a = ActionFixup -> <<"f">>
      [] a = ActionDrop -> <<"d">>
      [] a = ActionExec -> <<"x">>
      [] OTHER -> a

\* The action parts of the tokens: the names, their short forms, and some
\* of them in capitals.
ActionParts ==
    ActionTypes \cup {ShortForm(a) : a \in ActionTypes}
    \cup {<<"P", "i", "c", "k">>, <<"D", "R", "O", "P">>, <<"S">>, <<"F">>}

\* What follows the first colon of the tokens.
TokenRests ==
    {HashA, HashB, <<"l", "s">>, HashA \o <<":", "m", "s", "g">>, <<" ">> \o HashA}

InitShorthand ==
    /\ call \in [fn : {"parseActionSpec"}, action : ActionParts, rest : TokenRests]
    /\ result = <<>>
    /\ pc = "call"
    /\ GenIdle
    /\ StageIdle
    /\ FileIdle

CallParseActionSpec ==
    /\ pc = "call"
    /\ call.fn = "parseActionSpec"
    /\ result' = parseActionSpec(call.action \o <<":">> \o call.rest)
    /\ pc' = "returned"
    /\ UNCHANGED <<call, genVars, stageVars, fileVars>>

NextShorthand == CallParseActionSpec

SpecShorthand == InitShorthand /\ [][NextShorthand]_vars

TodoVerbs ==
    ActionTypes \cup {ShortForm(a) : a \in ActionTypes}
    \cup {<<"E", "x", "e", "c">>, <<"b", "o", "g", "u", "s">>}

MakeTest == <<"m", "a", "k", "e", " ", "t", "e", "s", "t">>

\* What follows the first word.
TodoRests ==
    {MakeTest, <<"l", "s">>, <<"m", "a", "k", "e", " ", " ", "t", "e", "s", "t">>,
     HashA \o <<" ", "o", "n", "e">>, HashA, <<>>}

InitTodoLine ==
    /\ call \in [fn : {"parseTodoLine"}, verb : TodoVerbs, rest : TodoRests]
    /\ result = <<>>
    /\ pc = "call"
    /\ GenIdle
    /\ StageIdle
    /\ FileIdle

\* ParseTodoFile hands the trimmed line to parseTodoLine.
CallParseTodoLine ==
    /\ pc = "call"
    /\ call.fn = "parseTodoLine"
    /\ result' = parseTodoLine(TrimSpace(call.verb \o <<" ">> \o call.rest))
    /\ pc' = "returned"
    /\ UNCHANGED <<call, genVars, stageVars, fileVars>>

NextTodoLine == CallParseTodoLine

SpecTodoLine == InitTodoLine /\ [][NextTodoLine]_vars

(***************************************************************************)
(* C24: parsing a todo line `exec COMMAND` yields an entry with the action *)
(* exec, an empty commit and the whole command text as subject.            *)
(***************************************************************************)
C24_ExecLineEntry ==
    (Returned("parseTodoLine") /\ call.verb = ActionExec /\ call.rest # <<>>) =>
        /\ result.ok
        /\ result.entry = TodoEntry(ActionExec, <<>>, call.rest)

\* The line `exec make test`: the entry has the commit make and the subject
\* test.
C24_FailingInput ==
    /\ Returned("parseTodoLine")
    /\ call.verb = ActionExec
    /\ call.rest = MakeTest
    /\ result.entry = TodoEntry(ActionExec, <<"m", "a", "k", "e">>, <<"t", "e", "s", "t">>)

(***************************************************************************)
(* C25: every commit reference of a rebase spec is validated to be 7 to 40 *)
(* characters long and hexadecimal; a spec with a commit reference that is *)
(* not is rejected, so the sequence editor never applies one.              *)
(***************************************************************************)
C25_CommitRefsValidated ==
    (Returned("applyRebaseSpec") /\ result = "nil") =>
        \A i \in DOMAIN call.specFile.actions :
            call.specFile.actions[i].Action # ActionExec =>
                isCommitHash(call.specFile.actions[i].Commit)

\* The spec picks abc, three characters long; it passes ParseSpec and the
\* todo file is rewritten with the commit abc1234de.
C25_FailingInput ==
    /\ Returned("applyRebaseSpec")
    /\ call.specFile.actions = <<RebaseAction(ActionPick, <<"a", "b", "c">>, <<>>, <<>>)>>
    /\ ParseSpec(call.specFile).err = "nil"
    /\ result = "nil"
    /\ todoFile = <<ActionPick \o <<" ">> \o HashA \o <<"d", "e", " ", "o", "n", "e">>>>

(***************************************************************************)
(* C26: commit resolution is deterministic: for one spec and one original  *)
(* todo ReorderToMatchSpec has one result, which every call returns, also  *)
(* when a commit of the spec prefix-matches several original entries.      *)
(***************************************************************************)
C26_ResolutionDeterministic ==
    Returned("ReorderToMatchSpec") =>
        \A other \in ReorderToMatchSpec(call.actions, call.original) : other = result

\* The original todo holds abc1234de and abc1234ff and the spec picks abc:
\* this call returned the first entry, another call returns the second.
C26_FailingInput ==
    /\ Returned("ReorderToMatchSpec")
    /\ Len(call.original) = 2
    /\ call.original[1].Commit = HashA \o <<"d", "e">>
    /\ call.original[2].Commit = HashA \o <<"f", "f">>
    /\ call.actions = <<RebaseAction(ActionPick, <<"a", "b", "c">>, <<>>, <<>>)>>
    /\ result.err = "nil"
    /\ result.entries[1].Commit = call.original[1].Commit
    /\ \E other \in ReorderToMatchSpec(call.actions, call.original) :
          other.entries[1].Commit = call.original[2].Commit

(***************************************************************************)
(* findTargetCommit step by step: every call is a frame of the goroutine   *)
(* stack, holding the subject and the prefix it was called with.           *)
(***************************************************************************)
\* Most frames the stack holds before the runtime ends the program.
MaxStack == 4

Frame(subject, prefix) == [subject |-> subject, prefix |-> prefix]

\* The frame that is running.
Top == call.stack[Len(call.stack)]

\* targetSubject of the running frame.
TargetSubject == TrimPrefix(Top.subject, Top.prefix)

\* The hashes the exact match or the range over subjectToHash can return in
\* the running frame; none when both find nothing.
Matches ==
    IF TargetSubject \in IndexedSubjects(call.commits)
    THEN {subjectToHash(call.commits, TargetSubject)}
    ELSE {subjectToHash(call.commits, subj) :
             subj \in {k \in IndexedSubjects(call.commits) : HasPrefix(k, TargetSubject)}}

\* The running frame reaches the check for nested fixups and passes it.
Nested ==
    /\ Matches = {}
    /\ HasPrefix(TargetSubject, FixupPrefix) \/ HasPrefix(TargetSubject, SquashPrefix)

\* The subjects of the fixup!/squash! commits resolved.
NestedSubjects ==
    {FixupPrefix \o SubjectA, SquashPrefix \o SubjectA, FixupPrefix \o <<"Z">>,
     FixupPrefix \o FixupPrefix \o SubjectA,
     SquashPrefix \o FixupPrefix \o SubjectA,
     FixupPrefix \o SquashPrefix \o SubjectA,
     SquashPrefix \o SquashPrefix \o SubjectA,
     FixupPrefix \o FixupPrefix \o FixupPrefix \o <<"Z">>}

\* The subjects of the other commits of the range.
PlainSubjects == {SubjectA, <<"A", "B">>, <<"B">>}

\* buildAutosquashPlan calls findTargetCommit with the subject of a fixup!
\* or squash! commit and that prefix.
InitResolve ==
    /\ \E subject \in NestedSubjects, n \in 0..2 : \E subjects \in [1..n -> PlainSubjects] :
          call = [fn |-> "findTargetCommit",
                  commits |-> CommitsOf(subjects),
                  stack |-> <<Frame(subject,
                                    IF isFixupCommit(subject) THEN FixupPrefix
                                    ELSE SquashPrefix)>>]
    /\ result = <<>>
    /\ pc = "call"
    /\ GenIdle
    /\ StageIdle
    /\ FileIdle

\* The running frame returns a hash, or "" when nothing matches and the
\* target subject has no further prefix; its callers return what it returns.
ReturnTarget ==
    /\ pc = "call"
    /\ call.fn = "findTargetCommit"
    /\ ~Nested
    /\ result' \in (IF Matches # {} THEN Matches ELSE {<<>>})
    /\ pc' = "returned"
    /\ UNCHANGED <<call, genVars, stageVars, fileVars>>

\* The running frame calls findTargetCommit(targetSubject, "fixup! ", ...).
CallNested ==
    /\ pc = "call"
    /\ call.fn = "findTargetCommit"
    /\ Nested
    /\ Len(call.stack) < MaxStack
    /\ call' = [call EXCEPT !.stack = Append(@, Frame(TargetSubject, FixupPrefix))]
    /\ UNCHANGED <<result, pc, genVars, stageVars, fileVars>>

\* The nested call does not fit on the stack: fatal error, stack overflow.
OverflowStack ==
    /\ pc = "call"
    /\ call.fn = "findTargetCommit"
    /\ Nested
    /\ Len(call.stack) = MaxStack
    /\ pc' = "crashed"
    /\ UNCHANGED <<call, result, genVars, stageVars, fileVars>>

NextResolve == ReturnTarget \/ CallNested \/ OverflowStack

\* The goroutine keeps running while it can take a step.
SpecResolve == InitResolve /\ [][NextResolve]_vars /\ WF_vars(NextResolve)

(***************************************************************************)
(* C27: target resolution terminates: for every fixup!/squash! subject,    *)
(* nested and mixed prefixes included, findTargetCommit returns a target   *)
(* or unresolved.                                                          *)
(***************************************************************************)
C27_ResolutionTerminates == <>(pc = "returned")

\* findTargetCommit("fixup! squash! A", "fixup! ") with the commit A in the
\* range: every nested call has the arguments ("squash! A", "fixup! ").
C27_FailingInput ==
    /\ pc = "crashed"
    /\ call.stack[1] = Frame(FixupPrefix \o SquashPrefix \o SubjectA, FixupPrefix)
    /\ call.stack[2] = Frame(SquashPrefix \o SubjectA, FixupPrefix)
    /\ call.stack[MaxStack] = call.stack[2]
    /\ \E i \in DOMAIN call.commits : call.commits[i].Subject = SubjectA

(***************************************************************************)
(* C28: every plan buildAutosquashPlan makes of a non-empty commit list    *)
(* passes the validation of a rebase spec; its first action is neither     *)
(* fixup nor squash.                                                       *)
(***************************************************************************)
C28_PlanPassesValidation ==
    (Returned("buildAutosquashPlan") /\ Len(call.commits) >= 1) =>
        /\ SpecValidate(result.plan) = "nil"
        /\ ~OpensWithSquash(result.plan)

\* The commits fixup! Z, A: the plan opens with the fixup and Validate
\* rejects it.
C28_FailingInput ==
    /\ Returned("buildAutosquashPlan")
    /\ Len(call.commits) = 2
    /\ call.commits[1].Subject = FixupPrefix \o <<"Z">>
    /\ call.commits[2].Subject = SubjectA
    /\ result.plan[1].Action = ActionFixup
    /\ SpecValidate(result.plan) # "nil"

\* The actions that keep a commit a later squash or fixup can combine into.
KeepsCommit(a) ==
    a.Action \in {ActionPick, ActionReword, ActionEdit, ActionSquash, ActionFixup}

\* Every squash or fixup of the actions has an earlier action that keeps a
\* commit.
HasPredecessors(actions) ==
    \A i \in DOMAIN actions :
        actions[i].Action \in {ActionSquash, ActionFixup} =>
            \E j \in 1..(i - 1) : KeepsCommit(actions[j])

(***************************************************************************)
(* C29: in every accepted rebase spec each squash or fixup action has,     *)
(* earlier in the spec, an action that keeps a commit (pick, reword, edit, *)
(* squash or fixup); exec and drop actions are no such predecessor.        *)
(***************************************************************************)
C29_SquashHasPredecessor ==
    /\ (Returned("Validate") /\ result.err = "nil") => HasPredecessors(call.actions)
    /\ ((Returned("ParseSpec") \/ Returned("ParseCLISpec")) /\ result.err = "nil") =>
          HasPredecessors(result.actions)

\* The spec drop abc1234, squash abc1234 is accepted.
C29_FailingInput ==
    /\ Returned("ParseSpec")
    /\ call.doc.actions = <<RebaseAction(ActionDrop, HashA, <<>>, <<>>),
                            RebaseAction(ActionSquash, HashA, <<>>, <<>>)>>
    /\ result.err = "nil"
    /\ result.actions = call.doc.actions

(***************************************************************************)
(* `hunk rebase run`: runRebaseRun, RebaseStart, RebaseStatus and the      *)
(* report.  gitState is what the run of `git rebase -i` left: its exit     *)
(* code, whether .git/rebase-merge exists, whether files are in conflict,  *)
(* what became of the sequence editor and whether the plan was executed to *)
(* its end.                                                                *)
(***************************************************************************)
GitState(exit, editor, rebaseMerge, conflicts, applied) ==
    [exit |-> exit, editor |-> editor, rebaseMerge |-> rebaseMerge,
     conflicts |-> conflicts, applied |-> applied]

\* The exit code RebaseStart takes for a paused rebase.
ExitPaused == 1

\* What `git rebase -i` can do with the sequence editor `hunk rebase
\* _apply-spec SPECFILE`: refuse to start (exit 1 for a dirty working tree,
\* 128 for a fatal error), give up because the editor failed (exit 1, the
\* rebase is abandoned), or execute the rewritten todo: to its end, up to a
\* conflict, or up to a step at which it stops.
GitRebase(specFile, todo) ==
    {[git |-> GitState(exit, "not run", FALSE, FALSE, FALSE), todo |-> <<>>] :
        exit \in {ExitPaused, 128}}
    \cup UNION {
        IF r.err # "nil"
        THEN {[git |-> GitState(ExitPaused, "failed", FALSE, FALSE, FALSE), todo |-> r.todo]}
        ELSE {[git |-> GitState(0, "done", FALSE, FALSE, TRUE), todo |-> r.todo],
              [git |-> GitState(ExitPaused, "done", TRUE, TRUE, FALSE), todo |-> r.todo],
              [git |-> GitState(ExitPaused, "done", TRUE, FALSE, FALSE), todo |-> r.todo]} :
        r \in applyRebaseSpec(specFile, todo)}

\* What runRebaseRun returns and prints.
RunOutput(error, success, message) ==
    [err |-> error, success |-> success, message |-> message]

InitRun ==
    /\ call \in [fn : {"runRebaseRun"}, specFile : SpecFiles, todo : TodoFiles]
    /\ todoFile = <<>>
    /\ gitState = <<>>
    /\ result = <<>>
    /\ pc = "call"
    /\ GenIdle
    /\ StageIdle

\* parseRebaseSpec and RebaseList: the spec is parsed and validated, the
\* range must hold commits.
ParseRebaseSpec ==
    /\ pc = "call"
    /\ call.fn = "runRebaseRun"
    /\ IF ParseSpec(call.specFile).err # "nil"
       THEN /\ result' = RunOutput(ParseSpec(call.specFile).err, FALSE, "")
            /\ pc' = "returned"
       ELSE IF Len(ParseTodoFile(call.todo)) = 0
       THEN /\ result' = RunOutput("no commits to rebase", FALSE, "")
            /\ pc' = "returned"
       ELSE /\ pc' = "start"
            /\ UNCHANGED result
    /\ UNCHANGED <<call, genVars, stageVars, fileVars>>

\* executor.RebaseStart: exit code 1 is taken for a paused rebase and is no
\* error; another exit code but 0 is one.
RebaseStart ==
    /\ pc = "start"
    /\ \E run \in GitRebase(call.specFile, call.todo) :
          /\ gitState' = run.git
          /\ todoFile' = run.todo
          /\ IF run.git.exit \in {0, ExitPaused}
             THEN /\ pc' = "status"
                  /\ UNCHANGED result
             ELSE /\ result' = RunOutput("rebase failed", FALSE, "")
                  /\ pc' = "returned"
    /\ UNCHANGED <<call, genVars, stageVars>>

\* executor.RebaseStatus, then formatRebaseRunJSON.
ReportStatus ==
    /\ pc = "status"
    /\ result' = RunOutput("nil", ~gitState.rebaseMerge,
                           IF gitState.rebaseMerge
                           THEN IF gitState.conflicts
                                THEN "Rebase paused due to conflicts"
                                ELSE "Rebase in progress"
                           ELSE "Rebase completed successfully")
    /\ pc' = "returned"
    /\ UNCHANGED <<call, genVars, stageVars, fileVars>>

NextRun == ParseRebaseSpec \/ RebaseStart \/ ReportStatus

SpecRun == InitRun /\ [][NextRun]_vars

(***************************************************************************)
(* C30: `rebase run` reports success, "Rebase completed successfully",     *)
(* only when git executed the rewritten plan to its end; when the sequence *)
(* editor fails or git ends without applying the plan, it reports an       *)
(* error.                                                                  *)
(***************************************************************************)
C30_SuccessOnlyIfApplied ==
    Returned("runRebaseRun") =>
        /\ (result.err = "nil" /\ result.success) => gitState.applied
        /\ (gitState # <<>> /\ gitState.editor # "done") => result.err # "nil"

\* The spec picks a commit that is not in the todo: the sequence editor
\* fails, git abandons the rebase with exit code 1, and the run reports
\* success.
C30_FailingInput ==
    /\ Returned("runRebaseRun")
    /\ gitState = GitState(ExitPaused, "failed", FALSE, FALSE, FALSE)
    /\ ValidateAgainstCommits(call.specFile.actions, ParseTodoFile(call.todo), 1).err # "nil"
    /\ todoFile = call.todo
    /\ result = RunOutput("nil", TRUE, "Rebase completed successfully")

====
